---- MODULE Spec2Model ----
(***************************************************************************)
(* MyLedger: the ledger and bill-scheduling logic of app/db.py.            *)
(*                                                                         *)
(* Tables are modelled as they are stored: transactions and bill_payments  *)
(* as sequences of rows (the index of a transaction row is its serial id), *)
(* trans_type as a function from id to label, pay_schedule as a sequence   *)
(* of at most one row.  Dates are records [y, m, d]; date arithmetic goes  *)
(* through proleptic Gregorian ordinals as datetime.date does.  Amounts    *)
(* are integers (cents).  Labels are sequences of one-character strings.   *)
(***************************************************************************)
EXTENDS Integers, Sequences, FiniteSets, TLC

VARIABLES
    accounts,       \* table accounts: id -> row
    trans_type,     \* table trans_type: id -> label
    transactions,   \* table transactions: row i has id i
    supplied,       \* history: supplied[i] = amount the caller passed at the last write of row i
    bills,          \* table bills: id -> row
    bill_payments,  \* table bill_payments: sequence of rows
    pay_schedule,   \* table pay_schedule: <<>> or one row (id = 1)
    args,           \* the arguments of the calls, in the specifications that keep them
    last            \* the last call: its name and outcome

vars == <<accounts, trans_type, transactions, supplied, bills, bill_payments, pay_schedule, args, last>>

(***************************************************************************)
(* Bounds                                                                  *)
(***************************************************************************)
MaxSpan == 17        \* window specification: dates lie within MaxSpan days of WindowMid
MaxAmount == 4       \* normalizer specification: amounts in -MaxAmount..MaxAmount
MaxOrderTxns == 3    \* ordering specification: number of transactions
MaxTxns == 2         \* ledger specification: number of transactions

(***************************************************************************)
(* Calendar (datetime.date as used by db.py)                               *)
(***************************************************************************)
Abs(x) == IF x < 0 THEN -x ELSE x

Min(a, b) == IF a <= b THEN a ELSE b

Max(a, b) == IF a >= b THEN a ELSE b

_last_dom(y, m) ==
    IF m \in {1, 3, 5, 7, 8, 10, 12} THEN 31
    ELSE IF m \in {4, 6, 9, 11} THEN 30
    ELSE LET leap == (y % 400 = 0) \/ (y % 4 = 0 /\ y % 100 # 0)
         IN  IF leap THEN 29 ELSE 28

\* the outcome of a call that raised
ValueError == [raised |-> "ValueError"]

\* date(y, m, d): the constructor raises ValueError on an invalid day or month
MkDate(y, m, d) ==
    IF m \in 1..12 /\ d >= 1 /\ d <= _last_dom(y, m)
    THEN [y |-> y, m |-> m, d |-> d]
    ELSE ValueError

IsDate(x) == DOMAIN x = {"y", "m", "d"}

\* date comparison a < b, a <= b
DateLT(a, b) ==
    \/ a.y < b.y
    \/ a.y = b.y /\ a.m < b.m
    \/ a.y = b.y /\ a.m = b.m /\ a.d < b.d

DateLE(a, b) == a = b \/ DateLT(a, b)

RECURSIVE DaysBeforeMonth(_, _)
DaysBeforeMonth(y, m) ==
    IF m = 1 THEN 0 ELSE DaysBeforeMonth(y, m - 1) + _last_dom(y, m - 1)

\* date.toordinal(): 0001-01-01 is day 1
ToOrdinal(dt) ==
    LET y1 == dt.y - 1
    IN  y1 * 365 + (y1 \div 4) - (y1 \div 100) + (y1 \div 400)
        + DaysBeforeMonth(dt.y, dt.m) + dt.d

RECURSIVE MonthOfDay(_, _, _)
\* the month and day of the n-th day (1-based) of year y, searching from month m
MonthOfDay(y, m, n) ==
    IF n <= _last_dom(y, m) THEN [y |-> y, m |-> m, d |-> n]
    ELSE MonthOfDay(y, m + 1, n - _last_dom(y, m))

\* date.fromordinal(n)
FromOrdinal(n) ==
    LET n0   == n - 1
        n400 == n0 \div 146097
        r400 == n0 % 146097
        n100 == r400 \div 36524
        r100 == r400 % 36524
        n4   == r100 \div 1461
        r4   == r100 % 1461
        n1   == r4 \div 365
        r1   == r4 % 365
        year == n400 * 400 + 1 + n100 * 100 + n4 * 4 + n1
    IN  IF n1 = 4 \/ n100 = 4
        THEN [y |-> year - 1, m |-> 12, d |-> 31]
        ELSE MonthOfDay(year, 1, r1 + 1)

\* date + timedelta(days = k)
DatePlus(dt, k) == FromOrdinal(ToOrdinal(dt) + k)

\* (a - b).days
DaysBetween(a, b) == ToOrdinal(a) - ToOrdinal(b)

(***************************************************************************)
(* Text (str.strip, str.lower, str.startswith)                             *)
(***************************************************************************)
UpperChars == <<"A","B","C","D","E","F","G","H","I","J","K","L","M",
                "N","O","P","Q","R","S","T","U","V","W","X","Y","Z">>

LowerChars == <<"a","b","c","d","e","f","g","h","i","j","k","l","m",
                "n","o","p","q","r","s","t","u","v","w","x","y","z">>

LowerChar(c) ==
    IF \E i \in 1..Len(UpperChars) : UpperChars[i] = c
    THEN LowerChars[CHOOSE i \in 1..Len(UpperChars) : UpperChars[i] = c]
    ELSE c

Lower(s) == [i \in 1..Len(s) |-> LowerChar(s[i])]

IsSpace(c) == c = " "

RECURSIVE LStrip(_)
LStrip(s) == IF s # <<>> /\ IsSpace(Head(s)) THEN LStrip(Tail(s)) ELSE s

RECURSIVE RStrip(_)
RStrip(s) ==
    IF s # <<>> /\ IsSpace(s[Len(s)]) THEN RStrip(SubSeq(s, 1, Len(s) - 1)) ELSE s

Strip(s) == RStrip(LStrip(s))

StartsWith(s, p) == Len(s) >= Len(p) /\ SubSeq(s, 1, Len(p)) = p

TxtExpense == <<"e","x","p","e","n","s","e">>

TxtDeposit == <<"d","e","p","o","s","i","t">>

(***************************************************************************)
(* Sign normalizer                                                         *)
(***************************************************************************)
\* the label text the normalizer classifies: the row's label, or "" without a row
TypeText(tt, type_id) ==
    Lower(Strip(IF type_id \in DOMAIN tt THEN tt[type_id] ELSE <<>>))

\* as written without abs(): the sign of the argument is kept or flipped
_normalized_amount_for_type_signed(tt, amount, type_id) ==
    IF StartsWith(TypeText(tt, type_id), TxtExpense) THEN -amount ELSE amount

\* as written without .lower(): the label is matched case-sensitively
_normalized_amount_for_type_nolower(tt, amount, type_id) ==
    LET amt  == Abs(amount)
        ttxt == Strip(IF type_id \in DOMAIN tt THEN tt[type_id] ELSE <<>>)
    IN  IF StartsWith(ttxt, TxtExpense) THEN -amt ELSE amt

_normalized_amount_for_type(tt, amount, type_id) ==
    LET amt  == Abs(amount)
        ttxt == TypeText(tt, type_id)
    IN  IF StartsWith(ttxt, TxtExpense) THEN -amt
        ELSE IF StartsWith(ttxt, TxtDeposit) THEN amt
        ELSE amt

(***************************************************************************)
(* Pay window scheduler                                                    *)
(***************************************************************************)
\* quotient rounded toward zero (what a truncating division would give)
TruncDiv(a, b) == IF a >= 0 THEN a \div b ELSE -((-a) \div b)

\* as written with a division that truncates
WindowOfTrunc(anchor, today) ==
    LET step  == 14
        days  == DaysBetween(today, anchor)
        k     == TruncDiv(days, step)
        start == DatePlus(anchor, step * k)
    IN  <<start, DatePlus(start, 13)>>

\* as written with end = start + 14 days
WindowOfLong(anchor, today) ==
    LET step  == 14
        days  == DaysBetween(today, anchor)
        k     == days \div step
        start == DatePlus(anchor, step * k)
    IN  <<start, DatePlus(start, 14)>>

\* as written with k = max(0, days // step): no window before the anchor
WindowOfNoPast(anchor, today) ==
    LET step  == 14
        days  == DaysBetween(today, anchor)
        k     == Max(0, days \div step)
        start == DatePlus(anchor, step * k)
    IN  <<start, DatePlus(start, 13)>>

\* the window of `today` for a given anchor (// is floor division)
WindowOf(anchor, today) ==
    LET step  == 14
        days  == DaysBetween(today, anchor)
        k     == days \div step
        start == DatePlus(anchor, step * k)
        end   == DatePlus(start, 13)
    IN  <<start, end>>

\* as written with a fixed fallback anchor (2024-01-01) where no row is found
get_pay_window_epoch(ps, today) ==
    LET anchor == IF ps # <<>> THEN ps[1].anchor_date ELSE [y |-> 2024, m |-> 1, d |-> 1]
    IN  WindowOf(anchor, today)

\* get_pay_window(today) against the pay_schedule table ps
get_pay_window(ps, today) ==
    LET anchor == IF ps # <<>> THEN ps[1].anchor_date ELSE today
    IN  WindowOf(anchor, today)

(***************************************************************************)
(* Bill due-date engine                                                    *)
(***************************************************************************)
\* as written with from_date.day < dom
_next_monthly_due_strict(dom0, from_date) ==
    LET dom == Max(1, Min(31, dom0))
    IN  IF from_date.d < dom
        THEN MkDate(from_date.y, from_date.m, Min(dom, _last_dom(from_date.y, from_date.m)))
        ELSE LET ny == from_date.y + (IF from_date.m = 12 THEN 1 ELSE 0)
                 nm == IF from_date.m = 12 THEN 1 ELSE from_date.m + 1
             IN  MkDate(ny, nm, Min(dom, _last_dom(ny, nm)))

\* as written without dom = max(1, min(31, int(dom)))
_next_monthly_due_noclamp(dom0, from_date) ==
    LET dom == dom0
    IN  IF from_date.d <= dom
        THEN MkDate(from_date.y, from_date.m, Min(dom, _last_dom(from_date.y, from_date.m)))
        ELSE LET ny == from_date.y + (IF from_date.m = 12 THEN 1 ELSE 0)
                 nm == IF from_date.m = 12 THEN 1 ELSE from_date.m + 1
             IN  MkDate(ny, nm, Min(dom, _last_dom(ny, nm)))

\* as written with dom = max(1, min(28, int(dom)))
_next_monthly_due_clamp28(dom0, from_date) ==
    LET dom == Max(1, Min(28, dom0))
    IN  IF from_date.d <= dom
        THEN MkDate(from_date.y, from_date.m, Min(dom, _last_dom(from_date.y, from_date.m)))
        ELSE LET ny == from_date.y + (IF from_date.m = 12 THEN 1 ELSE 0)
                 nm == IF from_date.m = 12 THEN 1 ELSE from_date.m + 1
             IN  MkDate(ny, nm, Min(dom, _last_dom(ny, nm)))

_next_monthly_due(dom0, from_date) ==
    LET dom == Max(1, Min(31, dom0))
    IN  IF from_date.d <= dom
        THEN MkDate(from_date.y, from_date.m, Min(dom, _last_dom(from_date.y, from_date.m)))
        ELSE LET ny == from_date.y + (IF from_date.m = 12 THEN 1 ELSE 0)
                 nm == IF from_date.m = 12 THEN 1 ELSE from_date.m + 1
             IN  MkDate(ny, nm, Min(dom, _last_dom(ny, nm)))

\* as written with the day clamped once, for from_date's year
_next_yearly_due_sameclamp(month0, dom0, from_date) ==
    LET month    == Max(1, Min(12, month0))
        dom      == Max(1, Min(31, dom0))
        day      == Min(dom, _last_dom(from_date.y, month))
        try_this == MkDate(from_date.y, month, day)
    IN  IF DateLE(from_date, try_this) THEN try_this
        ELSE [y |-> from_date.y + 1, m |-> month, d |-> day]

_next_yearly_due(month0, dom0, from_date) ==
    LET month    == Max(1, Min(12, month0))
        dom      == Max(1, Min(31, dom0))
        try_this == MkDate(from_date.y, month, Min(dom, _last_dom(from_date.y, month)))
    IN  IF DateLE(from_date, try_this) THEN try_this
        ELSE MkDate(from_date.y + 1, month, Min(dom, _last_dom(from_date.y + 1, month)))

(***************************************************************************)
(* Tables the program starts from                                          *)
(***************************************************************************)
LblExpense == <<"E","x","p","e","n","s","e">>

LblDeposit == <<"D","e","p","o","s","i","t">>

LblTransfer == <<"T","r","a","n","s","f","e","r">>

\* a label stored with surrounding blanks and in upper case
LblPadded == <<" ","E","X","P","E","N","S","E","S"," ">>

\* trans_type as seeded: 1 Expense, 2 Deposit, 3 Transfer
TypeTableSeeded == (1 :> LblExpense) @@ (2 :> LblDeposit) @@ (3 :> LblTransfer)

\* another content of trans_type: no row 3, the expense label padded
TypeTableOther == (1 :> LblDeposit) @@ (2 :> LblPadded)

TypeTables == {TypeTableSeeded, TypeTableOther}

\* a trans_type with no label that starts with "expense"
TypeTableNoExpense == (1 :> LblDeposit) @@ (2 :> LblTransfer)

TypeIds == 1..4

\* accounts as created by create_account: opening balance and active flag
AccountRow(balance, active) == [balance |-> balance, active |-> active]

\* the accounts on file in the ledger specifications
AccountsOnFile == (1 :> AccountRow(3, "YES")) @@ (2 :> AccountRow(-2, "YES"))

NoCall == [op |-> "init"]

(***************************************************************************)
(* SpecNorm: the sign normalizer applied to drawn inputs, then re-applied  *)
(***************************************************************************)
InitNorm ==
    /\ trans_type \in TypeTables
    /\ args \in [amount : (-MaxAmount)..MaxAmount, type_id : TypeIds]
    /\ transactions = <<>> /\ supplied = <<>>
    /\ bills = <<>> /\ bill_payments = <<>> /\ pay_schedule = <<>>
    /\ accounts = <<>>
    /\ last = NoCall

Normalize ==
    /\ last.op = "init"
    /\ last' = [op |-> "normalize", amount |-> args.amount,
                result |-> _normalized_amount_for_type(trans_type, args.amount, args.type_id)]
    /\ UNCHANGED <<accounts, trans_type, transactions, supplied, bills, bill_payments, pay_schedule, args>>

NormalizeAgain ==
    /\ last.op = "normalize"
    /\ last' = [op |-> "renormalize", amount |-> last.result,
                result |-> _normalized_amount_for_type(trans_type, last.result, args.type_id)]
    /\ UNCHANGED <<accounts, trans_type, transactions, supplied, bills, bill_payments, pay_schedule, args>>

NextNorm == Normalize \/ NormalizeAgain

SpecNorm == InitNorm /\ [][NextNorm]_vars

(***************************************************************************)
(* SpecWindow: get_pay_window called on two drawn dates, one after the     *)
(* other, against a drawn pay_schedule table                               *)
(***************************************************************************)
WindowMid == [y |-> 2024, m |-> 2, d |-> 15]

WindowDates == {DatePlus(WindowMid, i) : i \in (-MaxSpan)..MaxSpan}

PayScheduleRow(anchor) == [id |-> 1, frequency |-> "biweekly", anchor_date |-> anchor]

InitWindow ==
    /\ pay_schedule \in {<<>>} \cup {<<PayScheduleRow(a)>> : a \in WindowDates}
    /\ args \in [d1 : WindowDates, d2 : WindowDates]
    /\ trans_type = <<>> /\ transactions = <<>> /\ supplied = <<>>
    /\ bills = <<>> /\ bill_payments = <<>>
    /\ accounts = <<>>
    /\ last = NoCall

GetPayWindow(today) ==
    /\ last' = [op |-> "get_pay_window", today |-> today,
                result |-> get_pay_window(pay_schedule, today),
                before |-> last]
    /\ UNCHANGED <<accounts, trans_type, transactions, supplied, bills, bill_payments, pay_schedule, args>>

GetPayWindowFirst == last.op = "init" /\ GetPayWindow(args.d1)

GetPayWindowSecond ==
    last.op = "get_pay_window" /\ last.before.op = "init" /\ GetPayWindow(args.d2)

NextWindow == GetPayWindowFirst \/ GetPayWindowSecond

SpecWindow == InitWindow /\ [][NextWindow]_vars

(***************************************************************************)
(* SpecDue: the due-date functions applied to drawn inputs                 *)
(***************************************************************************)
DaysOfYear(y) ==
    {dt \in [y : {y}, m : 1..12, d : 1..31] : MkDate(dt.y, dt.m, dt.d) = dt}

MonthlyFromDates == DaysOfYear(1900) \cup DaysOfYear(2000) \cup DaysOfYear(2023) \cup DaysOfYear(2024)

YearlyFromDates == DaysOfYear(2023) \cup DaysOfYear(2024) \cup DaysOfYear(2099)

DomInputs == -1..32

MonthInputs == -1..13

InitDue ==
    /\ \/ args \in [fn : {"monthly"}, dom : DomInputs, from_date : MonthlyFromDates]
       \/ args \in [fn : {"yearly"}, month : MonthInputs, dom : DomInputs,
                    from_date : YearlyFromDates]
    /\ trans_type = <<>> /\ transactions = <<>> /\ supplied = <<>>
    /\ bills = <<>> /\ bill_payments = <<>> /\ pay_schedule = <<>>
    /\ accounts = <<>>
    /\ last = NoCall

NextMonthlyDue ==
    /\ last.op = "init" /\ args.fn = "monthly"
    /\ last' = [op |-> "_next_monthly_due",
                result |-> _next_monthly_due(args.dom, args.from_date)]
    /\ UNCHANGED <<accounts, trans_type, transactions, supplied, bills, bill_payments, pay_schedule, args>>

NextYearlyDue ==
    /\ last.op = "init" /\ args.fn = "yearly"
    /\ last' = [op |-> "_next_yearly_due",
                result |-> _next_yearly_due(args.month, args.dom, args.from_date)]
    /\ UNCHANGED <<accounts, trans_type, transactions, supplied, bills, bill_payments, pay_schedule, args>>

NextDue == NextMonthlyDue \/ NextYearlyDue

SpecDue == InitDue /\ [][NextDue]_vars

(***************************************************************************)
(* The ledger: transactions                                                *)
(*                                                                         *)
(* A transactions row keeps the columns the operations read or the claims  *)
(* speak of; method, cat and the day/month/year copies of the date are     *)
(* written once from the arguments and never read by db.py, and are left   *)
(* out.                                                                    *)
(***************************************************************************)
Accounts == {1, 2}

\* ids of the rows of table T that belong to account_id
RowsOf(T, account_id) == {i \in DOMAIN T : T[i].acc_id = account_id}

SetMax(S) == CHOOSE x \in S : \A y \in S : y <= x

\* as written without the WHERE acc_id = .. of the query
next_order_index_global(T, account_id) ==
    LET keys == {T[i].c_id : i \in DOMAIN T}
    IN  (IF keys # {} THEN SetMax(keys) ELSE 0) + 10

\* SELECT MAX(c_id) ... ; (maxv or 0) + 10
next_order_index(T, account_id) ==
    LET keys == {T[i].c_id : i \in RowsOf(T, account_id)}
    IN  (IF keys # {} THEN SetMax(keys) ELSE 0) + 10

\* ORDER BY c_id DESC, date DESC, id DESC: row i comes before row j
ListedBefore(T, i, j) ==
    \/ T[i].c_id > T[j].c_id
    \/ T[i].c_id = T[j].c_id /\ DateLT(T[j].date, T[i].date)
    \/ T[i].c_id = T[j].c_id /\ T[j].date = T[i].date /\ i > j

RECURSIVE SortedIds(_, _)
SortedIds(T, ids) ==
    IF ids = {} THEN <<>>
    ELSE LET first == CHOOSE i \in ids : \A j \in ids \ {i} : ListedBefore(T, i, j)
         IN  <<first>> \o SortedIds(T, ids \ {first})

\* list_transactions(account_id): the ids of the rows, in the order returned
list_transactions(T, account_id) == SortedIds(T, RowsOf(T, account_id))

\* the row add_transaction inserts into T
NewRow(T, tt, account_id, type_id, name, amount, occurred_on, pending) ==
    [id      |-> Len(T) + 1,
     acc_id  |-> account_id,
     c_id    |-> next_order_index(T, account_id),
     pending |-> IF pending THEN 1 ELSE 0,
     type    |-> type_id,
     name    |-> name,
     amount  |-> _normalized_amount_for_type(tt, amount, type_id),
     date    |-> occurred_on]

add_transaction(account_id, type_id, name, amount, occurred_on, pending) ==
    /\ transactions' = Append(transactions,
            NewRow(transactions, trans_type, account_id, type_id, name, amount,
                   occurred_on, pending))
    /\ supplied' = Append(supplied, amount)
    /\ last' = [op |-> "add_transaction", txn_id |-> Len(transactions) + 1]
    /\ UNCHANGED <<accounts, trans_type, bills, bill_payments, pay_schedule>>

\* UPDATE transactions SET ... WHERE id = txn_id AND acc_id = account_id
update_transaction(txn_id, account_id, type_id, name, amount, occurred_on, pending) ==
    LET hit == txn_id \in DOMAIN transactions /\ transactions[txn_id].acc_id = account_id
    IN  /\ transactions' =
              IF hit
              THEN [transactions EXCEPT ![txn_id] =
                      [@ EXCEPT !.type    = type_id,
                                !.name    = name,
                                !.amount  = _normalized_amount_for_type(trans_type, amount, type_id),
                                !.date    = occurred_on,
                                !.pending = IF pending THEN 1 ELSE 0]]
              ELSE transactions
        /\ supplied' = IF hit THEN [supplied EXCEPT ![txn_id] = amount] ELSE supplied
        /\ last' = [op |-> "update_transaction"]
        /\ UNCHANGED <<accounts, trans_type, bills, bill_payments, pay_schedule>>

\* as written without the WHERE clause
set_txn_pending_all(txn_id, pending) ==
    /\ transactions' =
          [i \in DOMAIN transactions |->
              [transactions[i] EXCEPT !.pending = IF pending THEN 1 ELSE 0]]
    /\ last' = [op |-> "set_txn_pending"]
    /\ UNCHANGED <<accounts, trans_type, supplied, bills, bill_payments, pay_schedule>>

\* UPDATE transactions SET pending = ... WHERE id = txn_id
set_txn_pending(txn_id, pending) ==
    /\ transactions' =
          IF txn_id \in DOMAIN transactions
          THEN [transactions EXCEPT ![txn_id].pending = IF pending THEN 1 ELSE 0]
          ELSE transactions
    /\ last' = [op |-> "set_txn_pending"]
    /\ UNCHANGED <<accounts, trans_type, supplied, bills, bill_payments, pay_schedule>>

\* as written with ORDER BY c_id DESC
RowAboveFarthest(T, account_id, cur_idx) ==
    LET cands == {i \in RowsOf(T, account_id) : T[i].c_id > cur_idx}
    IN  IF cands = {} THEN 0
        ELSE CHOOSE i \in cands : \A j \in cands :
                \/ T[i].c_id > T[j].c_id
                \/ T[i].c_id = T[j].c_id /\ i <= j

\* WHERE acc_id = .. AND c_id > cur_idx ORDER BY c_id ASC, id ASC LIMIT 1 (0: no row)
RowAbove(T, account_id, cur_idx) ==
    LET cands == {i \in RowsOf(T, account_id) : T[i].c_id > cur_idx}
    IN  IF cands = {} THEN 0
        ELSE CHOOSE i \in cands : \A j \in cands :
                \/ T[i].c_id < T[j].c_id
                \/ T[i].c_id = T[j].c_id /\ i <= j

\* as written with ORDER BY c_id ASC
RowBelowFarthest(T, account_id, cur_idx) ==
    LET cands == {i \in RowsOf(T, account_id) : T[i].c_id < cur_idx}
    IN  IF cands = {} THEN 0
        ELSE CHOOSE i \in cands : \A j \in cands :
                \/ T[i].c_id < T[j].c_id
                \/ T[i].c_id = T[j].c_id /\ i >= j

\* WHERE acc_id = .. AND c_id < cur_idx ORDER BY c_id DESC, id DESC LIMIT 1 (0: no row)
RowBelow(T, account_id, cur_idx) ==
    LET cands == {i \in RowsOf(T, account_id) : T[i].c_id < cur_idx}
    IN  IF cands = {} THEN 0
        ELSE CHOOSE i \in cands : \A j \in cands :
                \/ T[i].c_id > T[j].c_id
                \/ T[i].c_id = T[j].c_id /\ i >= j

\* as written without the second UPDATE
SwapKeysFirstOnly(T, txn_id, cur_idx, other_id, other_idx) ==
    [T EXCEPT ![txn_id].c_id = other_idx]

\* the two UPDATEs of a swap, in the order the code issues them
SwapKeys(T, txn_id, cur_idx, other_id, other_idx) ==
    LET T1 == [T EXCEPT ![txn_id].c_id = other_idx]
    IN  [T1 EXCEPT ![other_id].c_id = cur_idx]

\* as written without the `if prev:` test: unpacking None raises TypeError
MoveTxnUnchecked(opname, txn_id, other) ==
    /\ transactions' =
          IF other # 0
          THEN SwapKeys(transactions, txn_id, transactions[txn_id].c_id,
                        other, transactions[other].c_id)
          ELSE transactions
    /\ last' = [op |-> opname, other |-> other, raised |-> (other = 0)]
    /\ UNCHANGED <<accounts, trans_type, supplied, bills, bill_payments, pay_schedule>>

\* the body shared by move_txn_up and move_txn_down; other is the row found
MoveTxn(opname, txn_id, other) ==
    /\ transactions' =
          IF other # 0
          THEN SwapKeys(transactions, txn_id, transactions[txn_id].c_id,
                        other, transactions[other].c_id)
          ELSE transactions
    /\ last' = [op |-> opname, other |-> other, raised |-> FALSE]
    /\ UNCHANGED <<accounts, trans_type, supplied, bills, bill_payments, pay_schedule>>

\* cur.fetchone()[0] on an empty result raises TypeError before anything is written
MoveTxnRaises(opname) ==
    /\ last' = [op |-> opname, other |-> 0, raised |-> TRUE]
    /\ UNCHANGED <<accounts, trans_type, transactions, supplied, bills, bill_payments, pay_schedule>>

move_txn_up(account_id, txn_id) ==
    IF txn_id \in RowsOf(transactions, account_id)
    THEN MoveTxn("move_txn_up", txn_id,
                 RowAbove(transactions, account_id, transactions[txn_id].c_id))
    ELSE MoveTxnRaises("move_txn_up")

move_txn_down(account_id, txn_id) ==
    IF txn_id \in RowsOf(transactions, account_id)
    THEN MoveTxn("move_txn_down", txn_id,
                 RowBelow(transactions, account_id, transactions[txn_id].c_id))
    ELSE MoveTxnRaises("move_txn_down")

(***************************************************************************)
(* The ledger: bills and their occurrences                                 *)
(***************************************************************************)
\* SQL NULL in a nullable column
Null == 0

\* the bills on file: bill 1 is paid from account 1, bill 2 has no linked account
BillTable ==
    (1 :> [payee |-> "Rent", frequency |-> "monthly", amount_due |-> 2, account_id |-> 1,
           due_day |-> 25, due_month |-> Null, due_dom |-> Null, active |-> TRUE])
    @@
    (2 :> [payee |-> "Gym", frequency |-> "yearly", amount_due |-> 1, account_id |-> Null,
           due_day |-> Null, due_month |-> 2, due_dom |-> 29, active |-> TRUE])

\* ids of the rows of bill_payments BP with key (bill_id, due_date)
PaymentRows(BP, bill_id, due_date) ==
    {i \in DOMAIN BP : BP[i].bill_id = bill_id /\ BP[i].due_date = due_date}

\* as written without `ignored = FALSE` in the DO UPDATE
UpsertPaidKeepFlag(BP, bill_id, due_date, amount) ==
    IF PaymentRows(BP, bill_id, due_date) = {}
    THEN Append(BP, [bill_id |-> bill_id, due_date |-> due_date, amount |-> amount,
                     paid_at |-> "now", ignored |-> FALSE])
    ELSE [i \in DOMAIN BP |->
            IF i \in PaymentRows(BP, bill_id, due_date)
            THEN [BP[i] EXCEPT !.amount = amount, !.paid_at = "now"]
            ELSE BP[i]]

\* INSERT ... VALUES (bill, due, amount, NOW(), FALSE)
\* ON CONFLICT (bill_id, due_date) DO UPDATE SET amount, paid_at = NOW(), ignored = FALSE
UpsertPaid(BP, bill_id, due_date, amount) ==
    IF PaymentRows(BP, bill_id, due_date) = {}
    THEN Append(BP, [bill_id |-> bill_id, due_date |-> due_date, amount |-> amount,
                     paid_at |-> "now", ignored |-> FALSE])
    ELSE [i \in DOMAIN BP |->
            IF i \in PaymentRows(BP, bill_id, due_date)
            THEN [BP[i] EXCEPT !.amount = amount, !.paid_at = "now", !.ignored = FALSE]
            ELSE BP[i]]

\* as written without the ON CONFLICT clause and without the unique key
UpsertIgnoredInsertOnly(BP, bill_id, due_date, ignored) ==
    Append(BP, [bill_id |-> bill_id, due_date |-> due_date, amount |-> 0,
                paid_at |-> "default", ignored |-> ignored])

\* INSERT ... VALUES (bill, due, 0, ignored)
\* ON CONFLICT (bill_id, due_date) DO UPDATE SET ignored = EXCLUDED.ignored
UpsertIgnored(BP, bill_id, due_date, ignored) ==
    IF PaymentRows(BP, bill_id, due_date) = {}
    THEN Append(BP, [bill_id |-> bill_id, due_date |-> due_date, amount |-> 0,
                     paid_at |-> "default", ignored |-> ignored])
    ELSE [i \in DOMAIN BP |->
            IF i \in PaymentRows(BP, bill_id, due_date)
            THEN [BP[i] EXCEPT !.ignored = ignored]
            ELSE BP[i]]

\* SELECT 1 FROM bill_payments WHERE bill_id = .. AND due_date = ..
_is_bill_paid(BP, bill_id, due_date) == PaymentRows(BP, bill_id, due_date) # {}

\* ... AND ignored = TRUE
_is_bill_ignored(BP, bill_id, due_date) ==
    \E i \in PaymentRows(BP, bill_id, due_date) : BP[i].ignored

\* _lookup_id("SELECT id FROM trans_type WHERE LOWER(type) LIKE 'expense%'", 1):
\* the ids the call may return (any matching row, or the default)
ExpenseTypeIds(tt) ==
    LET hits == {id \in DOMAIN tt : StartsWith(Lower(tt[id]), TxtExpense)}
    IN  IF hits # {} THEN hits ELSE {1}

\* as written with the DO UPDATE also setting amount = EXCLUDED.amount
set_bill_ignored_reset(bill_id, due_date, ignored) ==
    /\ bill_payments' =
          IF PaymentRows(bill_payments, bill_id, due_date) = {}
          THEN UpsertIgnored(bill_payments, bill_id, due_date, ignored)
          ELSE [i \in DOMAIN bill_payments |->
                  IF i \in PaymentRows(bill_payments, bill_id, due_date)
                  THEN [bill_payments[i] EXCEPT !.amount = 0, !.ignored = ignored]
                  ELSE bill_payments[i]]
    /\ last' = [op |-> "set_bill_ignored"]
    /\ UNCHANGED <<accounts, trans_type, transactions, supplied, bills, pay_schedule>>

set_bill_ignored(bill_id, due_date, ignored) ==
    /\ bill_payments' = UpsertIgnored(bill_payments, bill_id, due_date, ignored)
    /\ last' = [op |-> "set_bill_ignored"]
    /\ UNCHANGED <<accounts, trans_type, transactions, supplied, bills, pay_schedule>>

\* The method and category lookups ("N/A", "Bills") only fill the columns left out
\* of the rows.  int(account_id) raises TypeError on a bill without a linked
\* account, after the payment row was written (each statement commits).
mark_bill_paid(bill_id, due_date) ==
    IF bill_id \notin DOMAIN bills
    THEN /\ last' = [op |-> "mark_bill_paid", txn_id |-> 0, raised |-> FALSE]
         /\ UNCHANGED <<accounts, trans_type, transactions, supplied, bills, bill_payments,
                        pay_schedule>>
    ELSE LET payee      == bills[bill_id].payee
             amount_due == bills[bill_id].amount_due
             account_id == bills[bill_id].account_id
         IN  /\ bill_payments' = UpsertPaid(bill_payments, bill_id, due_date, amount_due)
             /\ IF account_id = Null
                THEN /\ last' = [op |-> "mark_bill_paid", txn_id |-> 0, raised |-> TRUE]
                     /\ UNCHANGED <<transactions, supplied>>
                ELSE \E expense_id \in ExpenseTypeIds(trans_type) :
                        /\ transactions' = Append(transactions,
                               NewRow(transactions, trans_type, account_id, expense_id,
                                      payee, amount_due, due_date, FALSE))
                        /\ supplied' = Append(supplied, amount_due)
                        /\ last' = [op |-> "mark_bill_paid",
                                    txn_id |-> Len(transactions) + 1, raised |-> FALSE]
             /\ UNCHANGED <<accounts, trans_type, bills, pay_schedule>>

(***************************************************************************)
(* Spec: the ledger under every write operation on transactions.  The      *)
(* arguments of the calls are not kept (args stays empty).                 *)
(***************************************************************************)
LedgerDate == [y |-> 2024, m |-> 1, d |-> 25]

LedgerAccounts == {1}

LedgerTypes == 1..2

LedgerAmounts == {-1, 1}

LedgerBills == {1}

Init ==
    /\ trans_type \in TypeTables
    /\ transactions = <<>> /\ supplied = <<>>
    /\ bills = BillTable /\ bill_payments = <<>>
    /\ pay_schedule = <<>>
    /\ args = <<>>
    /\ accounts = AccountsOnFile
    /\ last = NoCall

AddTransaction ==
    \E a \in LedgerAccounts, ty \in LedgerTypes, amt \in LedgerAmounts :
        /\ Len(transactions) < MaxTxns
        /\ add_transaction(a, ty, "Coffee", amt, LedgerDate, FALSE)
        /\ UNCHANGED args

UpdateTransaction ==
    \E t \in DOMAIN transactions, a \in Accounts, ty \in LedgerTypes,
       amt \in LedgerAmounts :
        /\ update_transaction(t, a, ty, "Coffee", amt, LedgerDate, TRUE)
        /\ UNCHANGED args

SetTxnPending ==
    \E t \in DOMAIN transactions, p \in BOOLEAN :
        /\ set_txn_pending(t, p)
        /\ UNCHANGED args

MoveTxnUp ==
    \E a \in LedgerAccounts, t \in DOMAIN transactions :
        /\ move_txn_up(a, t)
        /\ UNCHANGED args

MoveTxnDown ==
    \E a \in LedgerAccounts, t \in DOMAIN transactions :
        /\ move_txn_down(a, t)
        /\ UNCHANGED args

MarkBillPaid ==
    \E b \in LedgerBills :
        /\ bills[b].account_id # Null => Len(transactions) < MaxTxns
        /\ mark_bill_paid(b, LedgerDate)
        /\ UNCHANGED args

Next ==
    \/ AddTransaction
    \/ UpdateTransaction
    \/ SetTxnPending
    \/ MoveTxnUp
    \/ MoveTxnDown
    \/ MarkBillPaid

Spec == Init /\ [][Next]_vars

(***************************************************************************)
(* SpecOrder: the ordering engine, a single writer adding and moving       *)
(* transactions of two accounts; args keeps the arguments of the last call *)
(***************************************************************************)
OrderDates == {[y |-> 2024, m |-> 1, d |-> 25], [y |-> 2024, m |-> 2, d |-> 29]}

InitOrder ==
    /\ trans_type = TypeTableSeeded
    /\ transactions = <<>> /\ supplied = <<>>
    /\ bills = BillTable /\ bill_payments = <<>>
    /\ pay_schedule = <<>>
    /\ args = <<>>
    /\ accounts = AccountsOnFile
    /\ last = NoCall

OrderAdd ==
    \E a \in Accounts, d \in OrderDates :
        /\ Len(transactions) < MaxOrderTxns
        /\ add_transaction(a, 1, "Coffee", 1, d, FALSE)
        /\ args' = [account_id |-> a, occurred_on |-> d]

OrderMoveUp ==
    \E a \in Accounts, t \in 1..(Len(transactions) + 1) :
        /\ move_txn_up(a, t)
        /\ args' = [account_id |-> a, txn_id |-> t]

OrderMoveDown ==
    \E a \in Accounts, t \in 1..(Len(transactions) + 1) :
        /\ move_txn_down(a, t)
        /\ args' = [account_id |-> a, txn_id |-> t]

NextOrder == OrderAdd \/ OrderMoveUp \/ OrderMoveDown

SpecOrder == InitOrder /\ [][NextOrder]_vars

(***************************************************************************)
(* Claims on the pay window (SpecWindow)                                   *)
(***************************************************************************)
\* the anchor row the window calls of this behaviour have read
Anchor == pay_schedule[1].anchor_date

WindowCalled == last.op = "get_pay_window" /\ pay_schedule # <<>>

\* C1: with a configured anchor a (before, at or after d), get_pay_window(d)
\* returns (start, end) with start <= d <= end, end = start + 13 days and
\* start = a + 14*k days for the k with 14*k <= d - a < 14*(k+1), that is
\* k = floor((d - a) / 14); when d precedes a the window starts before a.
C1_WindowContainsDate ==
    WindowCalled =>
        LET d     == last.today
            start == last.result[1]
            end   == last.result[2]
            delta == ToOrdinal(d) - ToOrdinal(Anchor)
        IN  /\ DateLE(start, d) /\ DateLE(d, end)
            /\ ToOrdinal(end) = ToOrdinal(start) + 13
            /\ \E k \in (-(2 * MaxSpan))..(2 * MaxSpan) :
                  /\ 14 * k <= delta /\ delta < 14 * (k + 1)
                  /\ ToOrdinal(start) = ToOrdinal(Anchor) + 14 * k
            /\ DateLT(d, Anchor) => DateLT(start, Anchor)

\* C1 witness: a call whose date precedes the anchor by a number of days that
\* is no multiple of 14 (where floor and truncation differ)
C1_Witness ==
    /\ WindowCalled
    /\ DateLT(last.today, Anchor)
    /\ (ToOrdinal(Anchor) - ToOrdinal(last.today)) % 14 # 0

BothWindowsCalled == WindowCalled /\ last.before.op = "get_pay_window"

\* C2: for a fixed anchor the windows partition the date line: the window of
\* d + 14 starts the day after the window of d ends, and the windows of any
\* two dates are the same window or share no day.
C2_WindowsPartition ==
    BothWindowsCalled =>
        LET d1 == last.before.today
            w1 == last.before.result
            d2 == last.today
            w2 == last.result
        IN  /\ ToOrdinal(d2) = ToOrdinal(d1) + 14
                => ToOrdinal(w2[1]) = ToOrdinal(w1[2]) + 1
            /\ \/ w1 = w2
               \/ DateLT(w1[2], w2[1])
               \/ DateLT(w2[2], w1[1])

\* C2 witness: the two calls were made on d and d + 14, d before the anchor
C2_Witness ==
    /\ BothWindowsCalled
    /\ ToOrdinal(last.today) = ToOrdinal(last.before.today) + 14
    /\ DateLT(last.before.today, Anchor)

(***************************************************************************)
(* Claims on the due-date engine (SpecDue)                                 *)
(***************************************************************************)
\* the Gregorian calendar, stated apart from the program's _last_dom
DaysIn(y, m) ==
    CASE m = 2 -> IF y % 4 # 0 THEN 28
                  ELSE IF y % 100 # 0 THEN 29
                  ELSE IF y % 400 # 0 THEN 28
                  ELSE 29
      [] m \in {4, 6, 9, 11} -> 30
      [] OTHER -> 31

\* x falls on day-of-month dom, clamped to the length of x's month
IsMonthlyOccurrence(dom, x) == x.d = Min(dom, DaysIn(x.y, x.m))

MonthlyCalled == last.op = "_next_monthly_due" /\ args.dom \in 1..31

\* C3: for day_of_month in 1..31, _next_monthly_due returns the soonest date
\* r >= from_date whose day is min(day_of_month, last day of r's month): r is
\* such a date and no date from from_date up to the day before r is one
\* (day 31 from 2024-02-15 gives 2024-02-29, from 2023-02-15 gives 2023-02-28).
C3_MonthlySoonest ==
    MonthlyCalled =>
        LET r == last.result
            f == args.from_date
        IN  /\ IsDate(r)
            /\ DateLE(f, r)
            /\ IsMonthlyOccurrence(args.dom, r)
            /\ \A i \in 0..62 :
                  LET x == DatePlus(f, i)
                  IN  DateLT(x, r) => ~IsMonthlyOccurrence(args.dom, x)
            /\ (args.dom = 31 /\ f = [y |-> 2024, m |-> 2, d |-> 15])
                  => r = [y |-> 2024, m |-> 2, d |-> 29]
            /\ (args.dom = 31 /\ f = [y |-> 2023, m |-> 2, d |-> 15])
                  => r = [y |-> 2023, m |-> 2, d |-> 28]

\* C3 witness: day 31 asked from the last day of a 30-day month
C3_Witness ==
    /\ MonthlyCalled
    /\ args.dom = 31 /\ args.from_date = [y |-> 2024, m |-> 4, d |-> 30]
    /\ last.result = [y |-> 2024, m |-> 4, d |-> 30]

\* the occurrence of (month, dom) in year y
YearlyOccurrence(month, dom, y) == [y |-> y, m |-> month, d |-> Min(dom, DaysIn(y, month))]

YearlyCalled == last.op = "_next_yearly_due" /\ args.month \in 1..12 /\ args.dom \in 1..31

\* C4: for month in 1..12 and day_of_month in 1..31, _next_yearly_due returns
\* the clamped day of that month in from_date's year when that is >= from_date
\* and otherwise the clamped day of that month in the next year, clamped for
\* that year; the result is >= from_date and no occurrence on or after
\* from_date is earlier (month 1, day 1 from 2024-06-01 gives 2025-01-01).
C4_YearlyEarliest ==
    YearlyCalled =>
        LET r    == last.result
            f    == args.from_date
            this == YearlyOccurrence(args.month, args.dom, f.y)
            next == YearlyOccurrence(args.month, args.dom, f.y + 1)
        IN  /\ r = IF DateLE(f, this) THEN this ELSE next
            /\ DateLE(f, r)
            /\ \A y \in {f.y - 1, f.y, f.y + 1} :
                  LET x == YearlyOccurrence(args.month, args.dom, y)
                  IN  DateLE(f, x) => DateLE(r, x)
            /\ (args.month = 1 /\ args.dom = 1 /\ f = [y |-> 2024, m |-> 6, d |-> 1])
                  => r = [y |-> 2025, m |-> 1, d |-> 1]

\* C4 witness: Feb 29 asked after February of a leap year rolls to Feb 28
C4_Witness ==
    /\ YearlyCalled
    /\ args.month = 2 /\ args.dom = 29 /\ args.from_date = [y |-> 2024, m |-> 3, d |-> 1]
    /\ last.result = [y |-> 2025, m |-> 2, d |-> 28]

(***************************************************************************)
(* Claims on the sign normalizer (SpecNorm)                                *)
(***************************************************************************)
\* C5: normalizing an already normalized amount with the same category gives
\* the same amount, for every sign of the amount and every category (expense,
\* deposit, other, or an id with no label row).
C5_NormalizeIdempotent ==
    last.op = "renormalize" => last.result = last.amount

\* C5 witness: a positive amount of an expense category, normalized twice
C5_Witness ==
    /\ last.op = "renormalize"
    /\ args.amount > 0 /\ last.result < 0

(***************************************************************************)
(* Claims on stored amounts (Spec)                                         *)
(***************************************************************************)
\* the label of the category of row i, as stored ("" when the id has no row)
LabelOf(i) ==
    IF transactions[i].type \in DOMAIN trans_type
    THEN trans_type[transactions[i].type] ELSE <<>>

\* C6 as stated: every stored transaction whose category label starts, case
\* apart, with "expense" holds -|supplied amount| and every other stored
\* transaction holds +|supplied amount|.
C6_SignByLabelPrefix ==
    \A i \in DOMAIN transactions :
        transactions[i].amount =
            IF StartsWith(Lower(LabelOf(i)), TxtExpense)
            THEN -Abs(supplied[i]) ELSE Abs(supplied[i])

\* C6 as amended: the label is read with its surrounding blanks removed: every
\* stored transaction whose trimmed category label starts, case apart, with
\* "expense" holds -|supplied amount|, every other one +|supplied amount|.
C6_SignByTrimmedLabel ==
    \A i \in DOMAIN transactions :
        transactions[i].amount =
            IF StartsWith(Lower(Strip(LabelOf(i))), TxtExpense)
            THEN -Abs(supplied[i]) ELSE Abs(supplied[i])

\* C6 witness: after a swap of keys, an expense row written from a positive
\* amount lies beside a non-expense row written from a negative amount
C6_Witness ==
    /\ last.op = "move_txn_up" /\ last.other # 0
    /\ \E i, j \in DOMAIN transactions :
          /\ StartsWith(Lower(Strip(LabelOf(i))), TxtExpense)
          /\ supplied[i] > 0 /\ transactions[i].amount < 0
          /\ ~StartsWith(Lower(Strip(LabelOf(j))), TxtExpense)
          /\ supplied[j] < 0 /\ transactions[j].amount > 0

(***************************************************************************)
(* Claims on the ordering engine (SpecOrder)                               *)
(***************************************************************************)
\* C7: after any sequence of add_transaction, move_txn_up and move_txn_down
\* calls by a single writer no two transactions of one account have the same
\* order key.
C7_KeysUniquePerAccount ==
    \A i, j \in DOMAIN transactions :
        (i # j /\ transactions[i].acc_id = transactions[j].acc_id)
            => transactions[i].c_id # transactions[j].c_id

\* C7 witness: a swap was made in an account of three transactions
C7_Witness ==
    /\ last.op = "move_txn_down" /\ last.other # 0
    /\ Cardinality(RowsOf(transactions, args.account_id)) >= 3

\* C8: add_transaction gives the new transaction the key max(keys of the
\* account) + 10, or 10 in an empty account; the key is above every other key
\* of the account and the new transaction is the first row list_transactions
\* returns, whatever its date.
C8_AddedOnTop ==
    last.op = "add_transaction" =>
        LET t      == last.txn_id
            a      == args.account_id
            others == RowsOf(transactions, a) \ {t}
        IN  /\ transactions[t].acc_id = a
            /\ transactions[t].c_id =
                  IF others = {} THEN 10
                  ELSE SetMax({transactions[j].c_id : j \in others}) + 10
            /\ \A j \in others : transactions[t].c_id > transactions[j].c_id
            /\ list_transactions(transactions, a)[1] = t

\* C8 witness: the added transaction is dated before one already in the
\* account, and the other account holds a transaction too
C8_Witness ==
    /\ last.op = "add_transaction"
    /\ \E j \in RowsOf(transactions, args.account_id) :
          DateLT(transactions[last.txn_id].date, transactions[j].date)
    /\ \E j \in DOMAIN transactions : transactions[j].acc_id # args.account_id

\* position of row t in a listing
IndexOf(seq, t) == CHOOSE i \in 1..Len(seq) : seq[i] = t

KeysOf(T, a) == {T[i].c_id : i \in RowsOf(T, a)}

\* j holds the smallest key of account a strictly greater than t's
NearestAbove(T, a, t, j) ==
    /\ j \in RowsOf(T, a) /\ T[j].c_id > T[t].c_id
    /\ \A k \in RowsOf(T, a) : T[k].c_id > T[t].c_id => T[j].c_id <= T[k].c_id

\* j holds the largest key of account a strictly less than t's
NearestBelow(T, a, t, j) ==
    /\ j \in RowsOf(T, a) /\ T[j].c_id < T[t].c_id
    /\ \A k \in RowsOf(T, a) : T[k].c_id < T[t].c_id => T[j].c_id >= T[k].c_id

\* the step exchanged the keys of t and j and changed nothing else, and t moved
\* by `shift` positions in the listing of account a
SwappedOnly(a, t, j, shift) ==
    /\ transactions'[t].c_id = transactions[j].c_id
    /\ transactions'[j].c_id = transactions[t].c_id
    /\ KeysOf(transactions', a) = KeysOf(transactions, a)
    /\ IndexOf(list_transactions(transactions', a), t)
          = IndexOf(list_transactions(transactions, a), t) + shift
    /\ DOMAIN transactions' = DOMAIN transactions
    /\ \A k \in DOMAIN transactions :
          IF k \in {t, j}
          THEN transactions'[k] = [transactions[k] EXCEPT !.c_id = transactions'[k].c_id]
          ELSE transactions'[k] = transactions[k]

\* C9: where the account holds a transaction with a key above t's, move_txn_up
\* exchanges t's key with the one holding the smallest such key, and where it
\* holds one with a key below t's, move_txn_down exchanges it with the one
\* holding the largest such key; the set of keys of the account is unchanged,
\* t moves exactly one position in list_transactions order, and no other
\* transaction of any account changes its key, amount, pending flag or date.
C9_MoveSwapsWithNeighbour ==
    [][ LET a == args'.account_id
            t == args'.txn_id
        IN  /\ (last'.op = "move_txn_up" /\ t \in RowsOf(transactions, a))
                  => \A j \in DOMAIN transactions :
                        NearestAbove(transactions, a, t, j)
                            => ~last'.raised /\ SwappedOnly(a, t, j, -1)
            /\ (last'.op = "move_txn_down" /\ t \in RowsOf(transactions, a))
                  => \A j \in DOMAIN transactions :
                        NearestBelow(transactions, a, t, j)
                            => ~last'.raised /\ SwappedOnly(a, t, j, 1)
      ]_vars

\* C9 witness: a move up exchanged keys in an account of three transactions,
\* taking the moved one from the last place to the middle
C9_Witness ==
    /\ last.op = "move_txn_up" /\ last.other # 0
    /\ Cardinality(RowsOf(transactions, args.account_id)) >= 3
    /\ IndexOf(list_transactions(transactions, args.account_id), args.txn_id) = 2

\* C10: move_txn_up on the transaction with the greatest key of its account
\* and move_txn_down on the one with the smallest key raise no error and leave
\* every transaction's key unchanged.
C10_BoundaryMoveIsNoOp ==
    [][ LET a == args'.account_id
            t == args'.txn_id
        IN  /\ (/\ last'.op = "move_txn_up" /\ t \in RowsOf(transactions, a)
                /\ \A j \in RowsOf(transactions, a) :
                      transactions[j].c_id <= transactions[t].c_id)
                  => ~last'.raised /\ transactions' = transactions
            /\ (/\ last'.op = "move_txn_down" /\ t \in RowsOf(transactions, a)
                /\ \A j \in RowsOf(transactions, a) :
                      transactions[j].c_id >= transactions[t].c_id)
                  => ~last'.raised /\ transactions' = transactions
      ]_vars

\* C10 witness: a move down of the last of several transactions of an account
\* returned without finding a row
C10_Witness ==
    /\ last.op = "move_txn_down" /\ last.other = 0 /\ ~last.raised
    /\ Cardinality(RowsOf(transactions, args.account_id)) >= 2
    /\ \A j \in RowsOf(transactions, args.account_id) :
          transactions[j].c_id >= transactions[args.txn_id].c_id

(***************************************************************************)
(* SpecRound: the ordering engine with every move up followed, if at all,  *)
(* by the move down of the same transaction; args keeps the arguments of   *)
(* the move up and the listing of the account before it                    *)
(***************************************************************************)
InitRound ==
    /\ trans_type = TypeTableSeeded
    /\ transactions = <<>> /\ supplied = <<>>
    /\ bills = BillTable /\ bill_payments = <<>>
    /\ pay_schedule = <<>>
    /\ args = <<>>
    /\ accounts = AccountsOnFile
    /\ last = NoCall

RoundAdd ==
    \E a \in Accounts, d \in OrderDates :
        /\ Len(transactions) < MaxOrderTxns
        /\ add_transaction(a, 1, "Coffee", 1, d, FALSE)
        /\ args' = <<>>

RoundMoveUp ==
    \E a \in Accounts, t \in DOMAIN transactions :
        /\ move_txn_up(a, t)
        /\ args' = [account_id |-> a, txn_id |-> t,
                    before |-> list_transactions(transactions, a)]

RoundMoveDown ==
    /\ last.op = "move_txn_up"
    /\ move_txn_down(args.account_id, args.txn_id)
    /\ UNCHANGED args

NextRound == RoundAdd \/ RoundMoveUp \/ RoundMoveDown

SpecRound == InitRound /\ [][NextRound]_vars

(***************************************************************************)
(* Claims on the round trip of a move (SpecRound)                          *)
(***************************************************************************)
\* the move down of transaction t of its account has followed its move up
RoundTripDone ==
    /\ last.op = "move_txn_down"
    /\ args.txn_id \in RowsOf(transactions, args.account_id)

\* C11 as stated: for every transaction t of an account, the first and the
\* last in display order included, move_txn_up then move_txn_down of t leaves
\* list_transactions of the account as it was before the two calls.
C11_RoundTripRestoresOrder ==
    RoundTripDone => list_transactions(transactions, args.account_id) = args.before

\* C11 as amended: for every transaction t of an account that is not the first
\* in display order (the last included), move_txn_up then move_txn_down of t
\* leaves list_transactions of the account as it was before the two calls.
C11_RoundTripRestoresUnlessFirst ==
    (RoundTripDone /\ args.before[1] # args.txn_id)
        => list_transactions(transactions, args.account_id) = args.before

\* C11 witness: the second of three transactions went to the top and back
C11_Witness ==
    /\ RoundTripDone /\ last.other # 0
    /\ Len(args.before) >= 3 /\ args.before[2] = args.txn_id

(***************************************************************************)
(* SpecSwap: a move statement by statement.  The pool is opened with       *)
(* autocommit, so each execute() of move_txn_up / move_txn_down commits on *)
(* its own and a reader on another connection may run between any two of   *)
(* them.  args is the frame of the move in progress: its position pc, its  *)
(* arguments and locals, and the keys of the account when it started.      *)
(***************************************************************************)
MaxSwapTxns == 3     \* swap specification: number of transactions

Idle == [pc |-> "idle"]

InitSwap ==
    /\ trans_type = TypeTableSeeded
    /\ transactions = <<>> /\ supplied = <<>>
    /\ bills = BillTable /\ bill_payments = <<>>
    /\ pay_schedule = <<>>
    /\ args = Idle
    /\ accounts = AccountsOnFile
    /\ last = NoCall

SwapAdd ==
    \E a \in Accounts :
        /\ args.pc = "idle"
        /\ Len(transactions) < MaxSwapTxns
        /\ add_transaction(a, 1, "Coffee", 1, LedgerDate, FALSE)
        /\ UNCHANGED args

\* SELECT c_id FROM transactions WHERE id = .. AND acc_id = .. ; fetchone()[0]
SwapSelectCur ==
    \E opname \in {"move_txn_up", "move_txn_down"}, a \in Accounts,
       t \in DOMAIN transactions :
        /\ args.pc = "idle"
        /\ IF t \in RowsOf(transactions, a)
           THEN /\ args' = [pc |-> "neighbour", op |-> opname, account_id |-> a,
                            txn_id |-> t, cur_idx |-> transactions[t].c_id,
                            keys |-> {transactions[i].c_id : i \in RowsOf(transactions, a)}]
                /\ last' = [op |-> opname, other |-> 0, raised |-> FALSE]
           ELSE /\ args' = Idle
                /\ last' = [op |-> opname, other |-> 0, raised |-> TRUE]
        /\ UNCHANGED <<accounts, trans_type, transactions, supplied, bills, bill_payments,
                       pay_schedule>>

\* SELECT id, c_id ... ORDER BY ... LIMIT 1 ; fetchone() ; `if prev:` / `if nxt:`
SwapSelectNeighbour ==
    /\ args.pc = "neighbour"
    /\ LET other == IF args.op = "move_txn_up"
                    THEN RowAbove(transactions, args.account_id, args.cur_idx)
                    ELSE RowBelow(transactions, args.account_id, args.cur_idx)
       IN  IF other # 0
           THEN /\ args' = [pc |-> "update1", op |-> args.op,
                            account_id |-> args.account_id, txn_id |-> args.txn_id,
                            cur_idx |-> args.cur_idx, keys |-> args.keys,
                            other_id |-> other, other_idx |-> transactions[other].c_id]
                /\ UNCHANGED last
           ELSE /\ args' = Idle
                /\ last' = [op |-> args.op, other |-> 0, raised |-> FALSE]
    /\ UNCHANGED <<accounts, trans_type, transactions, supplied, bills, bill_payments,
                   pay_schedule>>

\* UPDATE transactions SET c_id = other_idx WHERE id = txn_id
SwapUpdateFirst ==
    /\ args.pc = "update1"
    /\ transactions' = [transactions EXCEPT ![args.txn_id].c_id = args.other_idx]
    /\ args' = [args EXCEPT !.pc = "update2"]
    /\ UNCHANGED <<accounts, trans_type, supplied, bills, bill_payments, pay_schedule, last>>

\* UPDATE transactions SET c_id = cur_idx WHERE id = other_id
SwapUpdateSecond ==
    /\ args.pc = "update2"
    /\ transactions' = [transactions EXCEPT ![args.other_id].c_id = args.cur_idx]
    /\ args' = Idle
    /\ last' = [op |-> args.op, other |-> args.other_id, raised |-> FALSE]
    /\ UNCHANGED <<accounts, trans_type, supplied, bills, bill_payments, pay_schedule>>

\* list_transactions(account_id) on another connection: the keys in the order read
SwapReadList ==
    \E a \in Accounts :
        /\ LET ids == list_transactions(transactions, a)
           IN  last' = [op |-> "list_transactions", account_id |-> a,
                        keys |-> [i \in 1..Len(ids) |-> transactions[ids[i]].c_id]]
        /\ UNCHANGED <<accounts, trans_type, transactions, supplied, bills, bill_payments,
                       pay_schedule, args>>

\* next_order_index(account_id) on another connection
SwapReadNext ==
    \E a \in Accounts :
        /\ last' = [op |-> "next_order_index", account_id |-> a,
                    result |-> next_order_index(transactions, a)]
        /\ UNCHANGED <<accounts, trans_type, transactions, supplied, bills, bill_payments,
                       pay_schedule, args>>

NextSwap ==
    \/ SwapAdd
    \/ SwapSelectCur
    \/ SwapSelectNeighbour
    \/ SwapUpdateFirst
    \/ SwapUpdateSecond
    \/ SwapReadList
    \/ SwapReadNext

SpecSwap == InitSwap /\ [][NextSwap]_vars

(***************************************************************************)
(* Claims on the swap under concurrent readers (SpecSwap)                  *)
(***************************************************************************)
\* the read was made while a move on the same account was in progress
ReadDuringMove(opname) ==
    /\ last.op = opname
    /\ args.pc # "idle" /\ args.account_id = last.account_id

\* C12: a reader interleaved at any point of a swap never sees two
\* transactions of the account sharing an order key, nor a key of the account
\* missing: list_transactions reads pairwise distinct keys, exactly the keys
\* the account had when the move started, and next_order_index reads their
\* maximum plus 10.
C12_SwapLooksAtomic ==
    /\ ReadDuringMove("list_transactions") =>
          /\ \A i, j \in 1..Len(last.keys) : i # j => last.keys[i] # last.keys[j]
          /\ {last.keys[i] : i \in 1..Len(last.keys)} = args.keys
    /\ ReadDuringMove("next_order_index") => last.result = SetMax(args.keys) + 10

(***************************************************************************)
(* Balances: account_header, sidebar_accounts and the summary's total      *)
(***************************************************************************)
\* the outcome of unpacking or indexing the None of an empty fetchone()
TypeError == [raised |-> "TypeError"]

RECURSIVE SumAmounts(_, _)
\* SUM(t.amount) over the rows ids of T (0 for none, as under COALESCE(.., 0))
SumAmounts(T, ids) ==
    IF ids = {} THEN 0
    ELSE LET i == CHOOSE i \in ids : TRUE
         IN  T[i].amount + SumAmounts(T, ids \ {i})

\* as written with posted summing every transaction
account_header_allposted(A, T, account_id) ==
    IF account_id \notin DOMAIN A THEN TypeError
    ELSE [posted    |-> A[account_id].balance + SumAmounts(T, RowsOf(T, account_id)),
          available |-> A[account_id].balance + SumAmounts(T, RowsOf(T, account_id))]

\* accounts LEFT JOIN transactions WHERE a.id = .. GROUP BY ..: posted adds the
\* amounts of the rows with pending = 0, available the amounts of all rows
account_header(A, T, account_id) ==
    IF account_id \notin DOMAIN A THEN TypeError
    ELSE [posted    |-> A[account_id].balance
                          + SumAmounts(T, {i \in RowsOf(T, account_id) : T[i].pending = 0}),
          available |-> A[account_id].balance + SumAmounts(T, RowsOf(T, account_id))]

\* WHERE a.active <> 'NO'
ActiveAccounts(A) == {a \in DOMAIN A : A[a].active # "NO"}

\* sidebar_accounts(): account id -> available, for the accounts listed
sidebar_accounts(A, T) ==
    [a \in ActiveAccounts(A) |-> A[a].balance + SumAmounts(T, RowsOf(T, a))]

RECURSIVE SumBalances(_, _, _)
\* SUM(a.balance + COALESCE(t.sum_all, 0)) over the accounts ids
SumBalances(A, T, ids) ==
    IF ids = {} THEN 0
    ELSE LET a == CHOOSE a \in ids : TRUE
         IN  (A[a].balance + SumAmounts(T, RowsOf(T, a))) + SumBalances(A, T, ids \ {a})

\* as written without WHERE a.active <> 'NO'
summary_total_all(A, T) ==
    [cnt |-> Cardinality(DOMAIN A), total |-> SumBalances(A, T, DOMAIN A)]

\* the accounts rollup of show_summary: (cnt, total)
summary_total(A, T) ==
    [cnt   |-> Cardinality(ActiveAccounts(A)),
     total |-> SumBalances(A, T, ActiveAccounts(A))]

(***************************************************************************)
(* SpecBalance: transactions added and updated in accounts drawn with      *)
(* their opening balance and active flag, and the balances read            *)
(***************************************************************************)
MaxBalanceTxns == 2  \* balance specification: number of transactions

OpeningBalances == {-2, 3}

ActiveFlags == {"YES", "NO"}

\* (type_id, amount) of the transactions written: an expense of 1, a deposit of 2
BalanceInputs == {<<1, 1>>, <<2, 2>>}

InitBalance ==
    /\ accounts \in [Accounts -> [balance : OpeningBalances, active : ActiveFlags]]
    /\ trans_type = TypeTableSeeded
    /\ transactions = <<>> /\ supplied = <<>>
    /\ bills = <<>> /\ bill_payments = <<>>
    /\ pay_schedule = <<>>
    /\ args = <<>>
    /\ last = NoCall

BalAdd ==
    \E a \in Accounts, inp \in BalanceInputs, p \in BOOLEAN :
        /\ Len(transactions) < MaxBalanceTxns
        /\ add_transaction(a, inp[1], "Coffee", inp[2], LedgerDate, p)
        /\ UNCHANGED args

BalSetPending ==
    \E t \in DOMAIN transactions, p \in BOOLEAN :
        /\ set_txn_pending(t, p)
        /\ args' = [txn_id |-> t, pending |-> p, was |-> transactions[t].pending]

BalAccountHeader ==
    \E a \in Accounts :
        /\ last' = [op |-> "account_header", account_id |-> a,
                    result |-> account_header(accounts, transactions, a)]
        /\ UNCHANGED <<accounts, trans_type, transactions, supplied, bills, bill_payments,
                       pay_schedule, args>>

BalSidebar ==
    /\ last' = [op |-> "sidebar_accounts",
                result |-> sidebar_accounts(accounts, transactions)]
    /\ UNCHANGED <<accounts, trans_type, transactions, supplied, bills, bill_payments,
                   pay_schedule, args>>

BalSummary ==
    /\ last' = [op |-> "show_summary",
                result |-> summary_total(accounts, transactions)]
    /\ UNCHANGED <<accounts, trans_type, transactions, supplied, bills, bill_payments,
                   pay_schedule, args>>

NextBalance == BalAdd \/ BalSetPending \/ BalAccountHeader \/ BalSidebar \/ BalSummary

SpecBalance == InitBalance /\ [][NextBalance]_vars

(***************************************************************************)
(* Claims on balances (SpecBalance)                                        *)
(***************************************************************************)
RECURSIVE LedgerSum(_, _, _)
\* the sum of the amounts of the first n transactions that belong to account a
\* and whose pending flag is in pend, added row by row
LedgerSum(n, a, pend) ==
    IF n = 0 THEN 0
    ELSE LedgerSum(n - 1, a, pend)
         + (IF transactions[n].acc_id = a /\ transactions[n].pending \in pend
            THEN transactions[n].amount ELSE 0)

\* C13: account_header returns posted = opening balance + sum of the amounts
\* of the account's transactions with pending = 0 and available = opening
\* balance + sum of the amounts of all its transactions; available - posted is
\* the sum of the amounts of its pending transactions, and both are the
\* opening balance when the account has no transactions.
C13_HeaderBalances ==
    last.op = "account_header" =>
        LET a == last.account_id
            n == Len(transactions)
        IN  /\ last.result.posted = accounts[a].balance + LedgerSum(n, a, {0})
            /\ last.result.available = accounts[a].balance + LedgerSum(n, a, {0, 1})
            /\ last.result.available - last.result.posted = LedgerSum(n, a, {1})
            /\ RowsOf(transactions, a) = {}
                  => /\ last.result.posted = accounts[a].balance
                     /\ last.result.available = accounts[a].balance

\* C13 witness: the header of an account holding a posted and a pending
\* transaction
C13_Witness ==
    /\ last.op = "account_header"
    /\ \E i, j \in RowsOf(transactions, last.account_id) :
          transactions[i].pending = 0 /\ transactions[j].pending = 1
    /\ last.result.posted # accounts[last.account_id].balance
    /\ last.result.available # last.result.posted

\* C14: the summary's total is the sum, over exactly the accounts whose active
\* flag is not 'NO', of the available balance account_header and
\* sidebar_accounts report for the account (opening balance plus all its
\* transactions, pending included): deactivated accounts contribute nothing
\* and an active account without transactions contributes its opening balance.
C14_SummaryTotal ==
    last.op = "show_summary" =>
        LET n      == Len(transactions)
            Avail(a) == accounts[a].balance + LedgerSum(n, a, {0, 1})
            Part(a)  == IF accounts[a].active # "NO" THEN Avail(a) ELSE 0
            side     == sidebar_accounts(accounts, transactions)
        IN  /\ last.result.total = Part(1) + Part(2)
            /\ \A a \in Accounts :
                  accounts[a].active # "NO" =>
                     /\ a \in DOMAIN side /\ side[a] = Avail(a)
                     /\ account_header(accounts, transactions, a).available = Avail(a)
            /\ \A a \in DOMAIN side : accounts[a].active # "NO"

\* C14 witness: the summary over a deactivated account that holds
\* transactions and an active account without any
C14_Witness ==
    /\ last.op = "show_summary"
    /\ \E a, b \in Accounts :
          /\ accounts[a].active = "NO" /\ RowsOf(transactions, a) # {}
          /\ accounts[b].active = "YES" /\ RowsOf(transactions, b) = {}
          /\ last.result.total = accounts[b].balance

(***************************************************************************)
(* Bills due in a window: list_bills and upcoming_bills                    *)
(*                                                                         *)
(* Payees and frequencies are texts (sequences of characters); a NULL or   *)
(* empty frequency is the empty text, which `or "monthly"` treats alike.   *)
(***************************************************************************)
TxtMonthly == <<"m","o","n","t","h","l","y">>

TxtYearly == <<"y","e","a","r","l","y">>

\* the characters of the texts on file, in code point order
CodePoints == <<" ">> \o UpperChars \o LowerChars

CharCode(c) == CHOOSE i \in 1..Len(CodePoints) : CodePoints[i] = c

RECURSIVE TextLT(_, _)
\* str < str: by code points, a proper prefix first
TextLT(a, b) ==
    IF b = <<>> THEN FALSE
    ELSE IF a = <<>> THEN TRUE
    ELSE IF Head(a) = Head(b) THEN TextLT(Tail(a), Tail(b))
    ELSE CharCode(Head(a)) < CharCode(Head(b))

TextLE(a, b) == a = b \/ TextLT(a, b)

RECURSIVE PayeeOrders(_, _)
\* the orders ORDER BY b.payee allows for the rows ids of B (rows with the same
\* payee come in any order; payees compare by code points)
PayeeOrders(B, ids) ==
    IF ids = {} THEN {<<>>}
    ELSE LET firsts == {i \in ids : \A j \in ids : TextLE(B[i].payee, B[j].payee)}
         IN  UNION {{<<i>> \o rest : rest \in PayeeOrders(B, ids \ {i})} : i \in firsts}

\* list_bills(active_only): the sequences of ids the query may return
list_bills(B, active_only) ==
    PayeeOrders(B, {id \in DOMAIN B : (~active_only) \/ B[id].active})

\* the outcome of the loop body for a bill the loop skips
NoDue == [skipped |-> TRUE]

\* the due date the loop of upcoming_bills computes for row b
BillDue(b, window_start) ==
    LET freq == Lower(IF b.frequency = <<>> THEN TxtMonthly ELSE b.frequency)
    IN  IF freq = TxtMonthly /\ b.due_day # Null
        THEN _next_monthly_due(b.due_day, window_start)
        ELSE IF freq = TxtYearly /\ b.due_month # Null /\ b.due_dom # Null
        THEN _next_yearly_due(b.due_month, b.due_dom, window_start)
        ELSE NoDue

RECURSIVE UpcomingOutExclusive(_, _, _, _, _)
\* as written with window_start < due <= window_end
UpcomingOutExclusive(B, BP, all_bills, window_start, window_end) ==
    IF all_bills = <<>> THEN <<>>
    ELSE LET n    == Len(all_bills)
             out  == UpcomingOutExclusive(B, BP, SubSeq(all_bills, 1, n - 1), window_start,
                                          window_end)
             id   == all_bills[n]
             due  == BillDue(B[id], window_start)
         IN  IF IsDate(due) /\ DateLT(window_start, due) /\ DateLE(due, window_end)
             THEN Append(out, [id         |-> id,
                               payee      |-> B[id].payee,
                               amount_due |-> B[id].amount_due,
                               next_due   |-> due,
                               paid       |-> _is_bill_paid(BP, id, due),
                               ignored    |-> _is_bill_ignored(BP, id, due)])
             ELSE out

RECURSIVE UpcomingOut(_, _, _, _, _)
\* the list `out` after the loop over all_bills
UpcomingOut(B, BP, all_bills, window_start, window_end) ==
    IF all_bills = <<>> THEN <<>>
    ELSE LET n    == Len(all_bills)
             out  == UpcomingOut(B, BP, SubSeq(all_bills, 1, n - 1), window_start,
                                 window_end)
             id   == all_bills[n]
             due  == BillDue(B[id], window_start)
         IN  IF IsDate(due) /\ DateLE(window_start, due) /\ DateLE(due, window_end)
             THEN Append(out, [id         |-> id,
                               payee      |-> B[id].payee,
                               amount_due |-> B[id].amount_due,
                               next_due   |-> due,
                               paid       |-> _is_bill_paid(BP, id, due),
                               ignored    |-> _is_bill_ignored(BP, id, due)])
             ELSE out

\* key(x) <= key(y) for key = (next_due, payee.lower())
SortKeyLE(x, y) ==
    \/ DateLT(x.next_due, y.next_due)
    \/ x.next_due = y.next_due /\ TextLE(Lower(x.payee), Lower(y.payee))

RECURSIVE SortStable(_)
\* list.sort(key = ..): ascending, entries with equal keys keep their order
SortStable(seq) ==
    IF seq = <<>> THEN <<>>
    ELSE LET n    == Len(seq)
             done == SortStable(SubSeq(seq, 1, n - 1))
             x    == seq[n]
             k    == Cardinality({i \in 1..Len(done) : SortKeyLE(done[i], x)})
         IN  SubSeq(done, 1, k) \o <<x>> \o SubSeq(done, k + 1, Len(done))

\* as written without out.sort(..)
upcoming_bills_listorder(B, BP, all_bills, window_start, window_end) ==
    UpcomingOut(B, BP, all_bills, window_start, window_end)

\* upcoming_bills(window_start, window_end), all_bills being what list_bills returned
upcoming_bills(B, BP, all_bills, window_start, window_end) ==
    SortStable(UpcomingOut(B, BP, all_bills, window_start, window_end))

(***************************************************************************)
(* SpecBills: occurrences of the bills on file marked paid and ignored,    *)
(* and the bills of the pay window of a day listed; args keeps the         *)
(* arguments of the last call                                              *)
(***************************************************************************)
MaxBillTxns == 2     \* bills specification: number of transactions
MaxPayments == 2     \* bills specification: number of bill_payments rows

BillRow(payee, frequency, amount_due, account_id, due_day, due_month, due_dom, active) ==
    [payee |-> payee, frequency |-> frequency, amount_due |-> amount_due,
     account_id |-> account_id, due_day |-> due_day, due_month |-> due_month,
     due_dom |-> due_dom, active |-> active]

\* the bills on file: 1 and 3 fall due on the same days, 2 has no linked
\* account, 4 is inactive, 5 has no frequency, 6 has no usable rule
BillsOnFile ==
    (1 :> BillRow(<<"R","e","n","t">>, TxtMonthly, 2, 1, 25, Null, Null, TRUE))
    @@ (2 :> BillRow(<<"G","y","m">>, TxtYearly, 1, Null, Null, 2, 29, TRUE))
    @@ (3 :> BillRow(<<"c","a","r">>, <<"M","o","n","t","h","l","y">>, 1, 1, 25, Null, Null,
                     TRUE))
    @@ (4 :> BillRow(<<"O","l","d">>, TxtMonthly, 1, 1, 25, Null, Null, FALSE))
    @@ (5 :> BillRow(<<"M","i","s","c">>, <<>>, 1, Null, 31, Null, Null, TRUE))
    @@ (6 :> BillRow(<<"T","a","x">>, TxtYearly, 1, 1, Null, 4, Null, TRUE))

\* the bills the calls name (7 is not on file)
PayBills == {1, 2}

UnknownBill == 7

DueDates == {[y |-> 2024, m |-> 1, d |-> 25], [y |-> 2024, m |-> 2, d |-> 29]}

BillsAnchor == [y |-> 2024, m |-> 1, d |-> 5]

\* the days whose pay window is listed: one in each of four windows in a row
UpcomingDays ==
    {[y |-> 2024, m |-> 1, d |-> 10], [y |-> 2024, m |-> 1, d |-> 20],
     [y |-> 2024, m |-> 2, d |-> 5], [y |-> 2024, m |-> 2, d |-> 20]}

InitBills ==
    /\ accounts = AccountsOnFile
    /\ trans_type \in {TypeTableSeeded, TypeTableNoExpense}
    /\ transactions = <<>> /\ supplied = <<>>
    /\ bills = BillsOnFile /\ bill_payments = <<>>
    /\ pay_schedule = <<PayScheduleRow(BillsAnchor)>>
    /\ args = <<>>
    /\ last = NoCall

BillMarkPaid ==
    \E b \in PayBills \cup {UnknownBill}, d \in DueDates :
        /\ (b \in DOMAIN bills /\ bills[b].account_id # Null)
              => Len(transactions) < MaxBillTxns
        /\ (b \in DOMAIN bills /\ PaymentRows(bill_payments, b, d) = {})
              => Len(bill_payments) < MaxPayments
        /\ mark_bill_paid(b, d)
        /\ args' = [bill_id |-> b, due_date |-> d]

BillSetIgnored ==
    \E b \in PayBills, d \in DueDates, v \in BOOLEAN :
        /\ PaymentRows(bill_payments, b, d) = {} => Len(bill_payments) < MaxPayments
        /\ set_bill_ignored(b, d, v)
        /\ args' = [bill_id |-> b, due_date |-> d, ignored |-> v]

\* show_summary: the pay window of a day, then upcoming_bills over it
BillUpcoming ==
    \E today \in UpcomingDays, all_bills \in list_bills(bills, TRUE) :
        LET w == get_pay_window(pay_schedule, today)
        IN  /\ last' = [op |-> "upcoming_bills", window_start |-> w[1],
                        window_end |-> w[2],
                        result |-> upcoming_bills(bills, bill_payments, all_bills,
                                                  w[1], w[2])]
            /\ args' = [today |-> today]
            /\ UNCHANGED <<accounts, trans_type, transactions, supplied, bills,
                           bill_payments, pay_schedule>>

NextBills == BillMarkPaid \/ BillSetIgnored \/ BillUpcoming

SpecBills == InitBills /\ [][NextBills]_vars

(***************************************************************************)
(* Claims on bill occurrences (SpecBills)                                  *)
(***************************************************************************)
\* C15: after any sequence of mark_bill_paid and set_bill_ignored calls, in
\* any order and on any (bill, due_date) pairs, bill_payments holds at most
\* one record per pair.
C15_OneRecordPerOccurrence ==
    \A i, j \in DOMAIN bill_payments :
        (/\ bill_payments[i].bill_id = bill_payments[j].bill_id
         /\ bill_payments[i].due_date = bill_payments[j].due_date) => i = j

\* C15 witness: an occurrence paid and then ignored beside one only ignored
C15_Witness ==
    /\ last.op = "set_bill_ignored"
    /\ \E i, j \in DOMAIN bill_payments :
          /\ bill_payments[i].paid_at = "now" /\ bill_payments[i].ignored
          /\ bill_payments[j].paid_at = "default"

MarkedPaid == last.op = "mark_bill_paid" /\ args.bill_id \in DOMAIN bills

\* the transactions mark_bill_paid has synthesized for the occurrence
SynthesizedFor(bill_id, due_date) ==
    {i \in DOMAIN transactions :
        /\ transactions[i].name = bills[bill_id].payee
        /\ transactions[i].date = due_date}

\* C16: however many times mark_bill_paid(bill, due_date) has been called for
\* a pair of a bill with a linked account (twice in particular), there is
\* exactly one payment record for the pair and exactly one synthesized ledger
\* transaction in total: the second call creates none.
C16_MarkPaidTwiceOneTransaction ==
    (MarkedPaid /\ bills[args.bill_id].account_id # Null) =>
        /\ Cardinality(PaymentRows(bill_payments, args.bill_id, args.due_date)) = 1
        /\ Cardinality(SynthesizedFor(args.bill_id, args.due_date)) = 1

\* C17: mark_bill_paid on a bill without a linked account raises no error: the
\* payment record of the pair is written and no ledger transaction is created.
C17_UnlinkedMarkPaidCompletes ==
    (MarkedPaid /\ bills[args.bill_id].account_id = Null) =>
        /\ ~last.raised
        /\ PaymentRows(bill_payments, args.bill_id, args.due_date) # {}
        /\ last.txn_id = 0

\* the step left the records of every pair other than (bill_id, due_date) as
\* they were and added no record of another pair
OtherOccurrencesUnchanged(bill_id, due_date) ==
    /\ \A i \in DOMAIN bill_payments \ PaymentRows(bill_payments, bill_id, due_date) :
          i \in DOMAIN bill_payments' /\ bill_payments'[i] = bill_payments[i]
    /\ \A i \in DOMAIN bill_payments' \ DOMAIN bill_payments :
          i \in PaymentRows(bill_payments', bill_id, due_date)

\* C18: after mark_bill_paid(bill, due_date), whatever record the pair had
\* before (none, an ignore-only one, an earlier payment), the pair has one
\* record, with amount = the bill's amount_due and ignored = FALSE, and the
\* records of every other pair are unchanged.
C18_MarkPaidWritesRecord ==
    [][ (last'.op = "mark_bill_paid" /\ args'.bill_id \in DOMAIN bills) =>
          LET b    == args'.bill_id
              d    == args'.due_date
              rows == PaymentRows(bill_payments', b, d)
          IN  /\ Cardinality(rows) = 1
              /\ \A i \in rows :
                    /\ bill_payments'[i].amount = bills[b].amount_due
                    /\ bill_payments'[i].ignored = FALSE
              /\ OtherOccurrencesUnchanged(b, d)
      ]_vars

\* C18 witness: the pair marked paid had its record before the record of
\* another pair, which is ignored, was created
C18_Witness ==
    /\ MarkedPaid
    /\ Len(bill_payments) = 2
    /\ PaymentRows(bill_payments, args.bill_id, args.due_date) = {1}
    /\ bill_payments[2].ignored

\* C19: set_bill_ignored(bill, due_date, v) creates a record with amount 0 and
\* ignored = v when the pair has none, and otherwise changes only the ignored
\* flag of the pair's record (amount and paid timestamp stay); the records of
\* other pairs are unchanged and afterwards _is_bill_ignored(bill, due_date) = v.
C19_SetIgnoredFrame ==
    [][ last'.op = "set_bill_ignored" =>
          LET b   == args'.bill_id
              d   == args'.due_date
              v   == args'.ignored
              old == PaymentRows(bill_payments, b, d)
              new == PaymentRows(bill_payments', b, d)
          IN  /\ old = {} =>
                    /\ Cardinality(new) = 1
                    /\ \A i \in new : /\ bill_payments'[i].amount = 0
                                       /\ bill_payments'[i].ignored = v
              /\ old # {} =>
                    /\ new = old
                    /\ \A i \in old :
                          /\ bill_payments'[i].ignored = v
                          /\ bill_payments'[i].amount = bill_payments[i].amount
                          /\ bill_payments'[i].paid_at = bill_payments[i].paid_at
              /\ OtherOccurrencesUnchanged(b, d)
              /\ _is_bill_ignored(bill_payments', b, d) = v
      ]_vars

\* C19 witness: a paid occurrence was set ignored and kept its amount and
\* timestamp
C19_Witness ==
    /\ last.op = "set_bill_ignored" /\ args.ignored
    /\ \E i \in PaymentRows(bill_payments, args.bill_id, args.due_date) :
          /\ bill_payments[i].ignored
          /\ bill_payments[i].paid_at = "now"
          /\ bill_payments[i].amount = bills[args.bill_id].amount_due

\* the frequency of bill row b, defaulted and lower-cased
FrequencyOf(b) == IF b.frequency = <<>> THEN TxtMonthly ELSE Lower(b.frequency)

\* row b has a usable recurrence rule
UsableRule(b) ==
    \/ FrequencyOf(b) = TxtMonthly /\ b.due_day # Null
    \/ FrequencyOf(b) = TxtYearly /\ b.due_month # Null /\ b.due_dom # Null

\* the next due date of a row with a usable rule, from date f
NextDueFrom(b, f) ==
    IF FrequencyOf(b) = TxtMonthly
    THEN _next_monthly_due(b.due_day, f)
    ELSE _next_yearly_due(b.due_month, b.due_dom, f)

\* C20: upcoming_bills(window_start, window_end) returns for each active bill
\* with a usable recurrence rule at most one entry, present exactly when the
\* bill's next due date from window_start lies in [window_start, window_end];
\* inactive bills (and bills without a usable rule) never appear; an entry
\* carries the paid and ignored flags of its (bill, due date) pair; the result
\* is ascending by due date, then by lower-cased payee.  With anchor
\* 2024-01-05 the day 2024-01-20 gives the window 2024-01-19..2024-02-01,
\* which lists the monthly bill due on the 25th at 2024-01-25.
C20_UpcomingBills ==
    last.op = "upcoming_bills" =>
        LET ws  == last.window_start
            we  == last.window_end
            res == last.result
            EntriesOf(id) == {i \in 1..Len(res) : res[i].id = id}
        IN  /\ \A id \in DOMAIN bills :
                  IF bills[id].active /\ UsableRule(bills[id])
                  THEN LET due == NextDueFrom(bills[id], ws)
                       IN  /\ Cardinality(EntriesOf(id)) <= 1
                           /\ EntriesOf(id) # {} <=> (DateLE(ws, due) /\ DateLE(due, we))
                           /\ \A i \in EntriesOf(id) : res[i].next_due = due
                  ELSE EntriesOf(id) = {}
            /\ \A i \in 1..Len(res) :
                  /\ res[i].id \in DOMAIN bills
                  /\ res[i].paid =
                        (\E k \in DOMAIN bill_payments :
                            /\ bill_payments[k].bill_id = res[i].id
                            /\ bill_payments[k].due_date = res[i].next_due)
                  /\ res[i].ignored =
                        (\E k \in DOMAIN bill_payments :
                            /\ bill_payments[k].bill_id = res[i].id
                            /\ bill_payments[k].due_date = res[i].next_due
                            /\ bill_payments[k].ignored)
            /\ \A i, j \in 1..Len(res) :
                  i < j =>
                     \/ DateLT(res[i].next_due, res[j].next_due)
                     \/ /\ res[i].next_due = res[j].next_due
                        /\ TextLE(Lower(res[i].payee), Lower(res[j].payee))
            /\ args.today = [y |-> 2024, m |-> 1, d |-> 20] =>
                  /\ ws = [y |-> 2024, m |-> 1, d |-> 19]
                  /\ we = [y |-> 2024, m |-> 2, d |-> 1]
                  /\ \E i \in 1..Len(res) :
                        /\ res[i].id = 1
                        /\ res[i].next_due = [y |-> 2024, m |-> 1, d |-> 25]

\* C20 witness: the window of 2024-01-20 lists "car" before "Rent", both due
\* 2024-01-25, the latter paid, and a third bill after them
C20_Witness ==
    /\ last.op = "upcoming_bills"
    /\ args.today = [y |-> 2024, m |-> 1, d |-> 20]
    /\ Len(last.result) = 3
    /\ last.result[1].id = 3 /\ last.result[2].id = 1
    /\ last.result[2].paid /\ ~last.result[2].ignored
    /\ DateLT(last.result[2].next_due, last.result[3].next_due)

(***************************************************************************)
(* Claims on the pay window without a schedule (SpecWindow)                *)
(***************************************************************************)
\* C21: with no pay_schedule record get_pay_window(d) does not fail and takes
\* d itself as the anchor: it returns (d, d + 13 days) for every date d.
C21_NoAnchorWindow ==
    (last.op = "get_pay_window" /\ pay_schedule = <<>>) =>
        /\ IsDate(last.result[1]) /\ IsDate(last.result[2])
        /\ last.result[1] = last.today
        /\ ToOrdinal(last.result[2]) = ToOrdinal(last.today) + 13

\* C21 witness: two calls without a schedule, the second on a date inside the
\* window the first returned, each returning a window that starts on its date
C21_Witness ==
    /\ last.op = "get_pay_window" /\ pay_schedule = <<>>
    /\ last.before.op = "get_pay_window"
    /\ DateLT(last.before.today, last.today)
    /\ DateLE(last.today, last.before.result[2])
    /\ last.result[1] = last.today

(***************************************************************************)
(* Re-anchoring: upsert_pay_schedule                                       *)
(***************************************************************************)
\* as written with ON CONFLICT (id) DO NOTHING
upsert_pay_schedule_keep(anchor_date) ==
    /\ pay_schedule' =
          IF pay_schedule = <<>>
          THEN <<[id |-> 1, frequency |-> "biweekly", anchor_date |-> anchor_date]>>
          ELSE pay_schedule
    /\ last' = [op |-> "upsert_pay_schedule"]
    /\ UNCHANGED <<accounts, trans_type, transactions, supplied, bills, bill_payments>>

\* INSERT INTO pay_schedule (id, frequency, anchor_date) VALUES (1, 'biweekly', ..)
\* ON CONFLICT (id) DO UPDATE SET anchor_date = EXCLUDED.anchor_date
upsert_pay_schedule(anchor_date) ==
    /\ pay_schedule' =
          IF pay_schedule = <<>>
          THEN <<[id |-> 1, frequency |-> "biweekly", anchor_date |-> anchor_date]>>
          ELSE [pay_schedule EXCEPT ![1].anchor_date = anchor_date]
    /\ last' = [op |-> "upsert_pay_schedule"]
    /\ UNCHANGED <<accounts, trans_type, transactions, supplied, bills, bill_payments>>

(***************************************************************************)
(* SpecAnchor: the schedule re-anchored and the window of a day asked, in  *)
(* any order.  args keeps the anchor of the last upsert_pay_schedule call  *)
(* and the last two get_pay_window calls (cur, prev), each with its date,  *)
(* the schedule it read and the window it returned; <<>> stands for none.  *)
(***************************************************************************)
\* offsets from WindowMid of the anchors set: some 14 or 28 days apart
AnchorOffsets == {-28, -14, -5, 0, 3, 14}

AnchorDays == {DatePlus(WindowMid, i) : i \in AnchorOffsets}

\* the dates asked: before every anchor, among them, after them
ReferenceDays == {DatePlus(WindowMid, i) : i \in {-33, -2, 20}}

InitAnchor ==
    /\ accounts = <<>> /\ trans_type = <<>>
    /\ transactions = <<>> /\ supplied = <<>>
    /\ bills = <<>> /\ bill_payments = <<>>
    /\ pay_schedule = <<>>
    /\ args = [anchor |-> <<>>, cur |-> <<>>, prev |-> <<>>]
    /\ last = NoCall

AnchorUpsert ==
    \E a \in AnchorDays :
        /\ upsert_pay_schedule(a)
        /\ args' = [args EXCEPT !.anchor = <<a>>]

AnchorWindow ==
    \E today \in ReferenceDays :
        LET w == get_pay_window(pay_schedule, today)
        IN  /\ last' = [op |-> "get_pay_window", today |-> today, result |-> w]
            /\ args' = [args EXCEPT
                           !.prev = args.cur,
                           !.cur = <<[today |-> today, schedule |-> pay_schedule,
                                      result |-> w]>>]
            /\ UNCHANGED <<accounts, trans_type, transactions, supplied, bills,
                           bill_payments, pay_schedule>>

NextAnchor == AnchorUpsert \/ AnchorWindow

SpecAnchor == InitAnchor /\ [][NextAnchor]_vars

(***************************************************************************)
(* Claims on re-anchoring (SpecAnchor)                                     *)
(***************************************************************************)
\* C22: after any sequence of upsert_pay_schedule calls there is exactly one
\* pay_schedule record and it holds the anchor of the last call; the window
\* get_pay_window returns for d is the one of that anchor alone (start =
\* anchor + 14 * floor((d - anchor) / 14), end = start + 13), whatever anchors
\* were set and whatever windows were returned before.
C22_LastAnchorDecides ==
    /\ Len(pay_schedule) <= 1
    /\ args.anchor = <<>> => pay_schedule = <<>>
    /\ args.anchor # <<>> =>
          /\ Len(pay_schedule) = 1
          /\ pay_schedule[1].anchor_date = args.anchor[1]
    /\ (last.op = "get_pay_window" /\ args.anchor # <<>>) =>
          LET a     == ToOrdinal(args.anchor[1])
              delta == ToOrdinal(last.today) - a
          IN  \E k \in -10..10 :
                 /\ 14 * k <= delta /\ delta < 14 * (k + 1)
                 /\ ToOrdinal(last.result[1]) = a + 14 * k
                 /\ ToOrdinal(last.result[2]) = a + 14 * k + 13

\* the last two get_pay_window calls were made on the same date, each with a
\* schedule on file
SameDateAskedTwice ==
    /\ last.op = "get_pay_window"
    /\ args.prev # <<>>
    /\ args.prev[1].today = args.cur[1].today
    /\ args.prev[1].schedule # <<>> /\ args.cur[1].schedule # <<>>

\* C22 witness: re-anchoring between two calls on the same date changed the
\* window the date belongs to
C22_Witness ==
    /\ SameDateAskedTwice
    /\ args.prev[1].schedule # args.cur[1].schedule
    /\ args.prev[1].result # args.cur[1].result
    /\ args.cur[1].result = last.result

\* the numbers n of 14-day steps by which the anchor is shifted
PhaseShifts == -3..3

\* C29: the window depends on the anchor only through its phase: for every
\* date d, anchor a and integer n, get_pay_window(d) with anchor a + 14 * n
\* days is get_pay_window(d) with anchor a; in particular two calls on the
\* same date whose anchors differ by a multiple of 14 days return the same
\* window.
C29_AnchorPhaseOnly ==
    /\ (last.op = "get_pay_window" /\ pay_schedule # <<>>) =>
          \A n \in PhaseShifts :
             get_pay_window(
                 <<PayScheduleRow(DatePlus(pay_schedule[1].anchor_date, 14 * n))>>,
                 last.today) = last.result
    /\ (/\ SameDateAskedTwice
        /\ (ToOrdinal(args.prev[1].schedule[1].anchor_date)
              - ToOrdinal(args.cur[1].schedule[1].anchor_date)) % 14 = 0)
          => args.prev[1].result = args.cur[1].result

\* C29 witness: the same date asked with two anchors 28 days apart, one after
\* the date and one before it
C29_Witness ==
    /\ SameDateAskedTwice
    /\ ToOrdinal(args.prev[1].schedule[1].anchor_date)
          - ToOrdinal(args.cur[1].schedule[1].anchor_date) = 28
    /\ DateLT(args.cur[1].today, args.prev[1].schedule[1].anchor_date)
    /\ DateLT(args.cur[1].schedule[1].anchor_date, args.cur[1].today)
    /\ args.prev[1].result = args.cur[1].result

(***************************************************************************)
(* Claims on invalid and extreme arguments of the due-date engine          *)
(* (SpecDue)                                                               *)
(***************************************************************************)
\* C23: the core fails fast on invalid inputs: _next_monthly_due and
\* _next_yearly_due called with a day-of-month below 1 or above 31, or a month
\* outside 1..12, return an error rather than a date, and the sign normalizer
\* called with a category id that has no label row returns an error rather
\* than an amount.
C23_FailsFastOnInvalidInput ==
    /\ (last.op = "_next_monthly_due" /\ args.dom \notin 1..31) => ~IsDate(last.result)
    /\ (last.op = "_next_yearly_due" /\ (args.dom \notin 1..31 \/ args.month \notin 1..12))
          => ~IsDate(last.result)
    /\ (last.op = "normalize" /\ args.type_id \notin DOMAIN trans_type)
          => last.result \notin Int

\* C25 as stated: there are inputs with day_of_month greater than the number
\* of days of from_date's month and from_date the last day of that month for
\* which _next_monthly_due returns a date before from_date.
C25_SomeDueBeforeFromDate ==
    last.op = "_next_monthly_due" =>
        \E dom \in DomInputs, f \in MonthlyFromDates :
            /\ dom > DaysIn(f.y, f.m) /\ f.d = DaysIn(f.y, f.m)
            /\ DateLT(_next_monthly_due(dom, f), f)

\* C25 as amended: for every input with day_of_month greater than the number
\* of days of from_date's month and from_date the last day of that month,
\* _next_monthly_due returns from_date itself; for no input is the date it
\* returns before from_date.
C25_MonthEndDueIsFromDate ==
    last.op = "_next_monthly_due" =>
        LET f == args.from_date
        IN  /\ IsDate(last.result) /\ DateLE(f, last.result)
            /\ (args.dom > DaysIn(f.y, f.m) /\ f.d = DaysIn(f.y, f.m))
                  => last.result = f

\* C25 witness: day 30 asked from the last day of February 2023
C25_Witness ==
    /\ last.op = "_next_monthly_due"
    /\ args.dom = 30 /\ args.from_date = [y |-> 2023, m |-> 2, d |-> 28]
    /\ last.result = [y |-> 2023, m |-> 2, d |-> 28]

\* x is a date of the calendar
ValidDate(x) ==
    /\ IsDate(x)
    /\ x.m \in 1..12
    /\ x.d \in 1..DaysIn(x.y, x.m)

\* C26: for every integer day_of_month and month (0, negatives and values
\* above 31 / 12 included) _next_monthly_due and _next_yearly_due return what
\* they return for max(1, min(31, day_of_month)) and max(1, min(12, month)),
\* and the result is a valid calendar date.
C26_ArgumentsClamped ==
    /\ last.op = "_next_monthly_due" =>
          /\ last.result = _next_monthly_due(Max(1, Min(31, args.dom)), args.from_date)
          /\ ValidDate(last.result)
    /\ last.op = "_next_yearly_due" =>
          /\ last.result = _next_yearly_due(Max(1, Min(12, args.month)),
                                            Max(1, Min(31, args.dom)), args.from_date)
          /\ ValidDate(last.result)

\* C26 witness: month 13 and day -1 asked in the middle of 2024 give the first
\* of December
C26_Witness ==
    /\ last.op = "_next_yearly_due"
    /\ args.month = 13 /\ args.dom = -1
    /\ args.from_date = [y |-> 2024, m |-> 6, d |-> 15]
    /\ last.result = [y |-> 2024, m |-> 12, d |-> 1]

(***************************************************************************)
(* Claims on the ledger entry of a paid bill and on the paid status        *)
(* (SpecBills)                                                             *)
(***************************************************************************)
\* C24: mark_bill_paid(bill, due_date) on a bill with a linked account adds
\* exactly one transaction, to the linked account, with description = payee,
\* occurrence date = due_date, pending = false and amount = -|amount_due|, so
\* the posted and the available balance of the linked account both go down by
\* |amount_due| and no other account changes; also when trans_type has no
\* label that starts with "expense".
C24_MarkPaidAddsExpense ==
    [][ (/\ last'.op = "mark_bill_paid" /\ args'.bill_id \in DOMAIN bills
         /\ bills[args'.bill_id].account_id # Null) =>
          LET b      == bills[args'.bill_id]
              n      == Len(transactions)
              before == account_header(accounts, transactions, b.account_id)
              after  == account_header(accounts', transactions', b.account_id)
          IN  /\ Len(transactions') = n + 1
              /\ \A i \in 1..n : transactions'[i] = transactions[i]
              /\ transactions'[n + 1].acc_id = b.account_id
              /\ transactions'[n + 1].name = b.payee
              /\ transactions'[n + 1].date = args'.due_date
              /\ transactions'[n + 1].pending = 0
              /\ transactions'[n + 1].amount = 0 - Abs(b.amount_due)
              /\ after.posted = before.posted - Abs(b.amount_due)
              /\ after.available = before.available - Abs(b.amount_due)
              /\ \A a \in DOMAIN accounts \ {b.account_id} :
                    account_header(accounts', transactions', a)
                      = account_header(accounts, transactions, a)
      ]_vars

\* mark_bill_paid has been called for the pair: only it stamps paid_at
PaidByMarkPaid(bill_id, due_date) ==
    \E i \in PaymentRows(bill_payments, bill_id, due_date) :
        bill_payments[i].paid_at = "now"

\* C27: in every state reached through mark_bill_paid and set_bill_ignored
\* calls, _is_bill_paid(bill, due_date) is true only if mark_bill_paid was
\* called for that pair; so an occurrence that was only ignored, or ignored and
\* un-ignored, is listed by upcoming_bills as unpaid (it stays in the
\* summary's total due once un-ignored, and its Mark-paid button stays usable).
C27_PaidOnlyByMarkPaid ==
    /\ \A b \in DOMAIN bills, d \in DueDates :
          _is_bill_paid(bill_payments, b, d) => PaidByMarkPaid(b, d)
    /\ last.op = "upcoming_bills" =>
          \A k \in DOMAIN last.result :
              last.result[k].paid => PaidByMarkPaid(last.result[k].id, last.result[k].next_due)

(***************************************************************************)
(* SpecOccur: upcoming_bills over every 14-day window that starts in 2023  *)
(* or 2024, on a table holding one active bill drawn from every monthly    *)
(* and every yearly rule                                                   *)
(***************************************************************************)
OccurStarts == DaysOfYear(2023) \cup DaysOfYear(2024)

OccurBills ==
    {BillRow(<<"R","e","n","t">>, TxtMonthly, 1, Null, dom, Null, Null, TRUE) : dom \in 1..31}
    \cup {BillRow(<<"T","a","x">>, TxtYearly, 1, Null, Null, mo, dom, TRUE) :
             mo \in 1..12, dom \in 1..31}

InitOccur ==
    /\ bills \in {(1 :> b) : b \in OccurBills}
    /\ args \in [window_start : OccurStarts]
    /\ accounts = AccountsOnFile /\ trans_type = TypeTableSeeded
    /\ transactions = <<>> /\ supplied = <<>>
    /\ bill_payments = <<>> /\ pay_schedule = <<>>
    /\ last = NoCall

OccurUpcoming ==
    /\ last.op = "init"
    /\ \E all_bills \in list_bills(bills, TRUE) :
          last' = [op |-> "upcoming_bills",
                   window_start |-> args.window_start,
                   window_end |-> DatePlus(args.window_start, 13),
                   result |-> upcoming_bills(bills, bill_payments, all_bills,
                                             args.window_start,
                                             DatePlus(args.window_start, 13))]
    /\ UNCHANGED <<accounts, trans_type, transactions, supplied, bills, bill_payments,
                   pay_schedule, args>>

NextOccur == OccurUpcoming

SpecOccur == InitOccur /\ [][NextOccur]_vars

\* x is an occurrence of bill b: x's day is the bill's day cut to the length
\* of x's month and, for a yearly bill, x's month is the bill's month
IsOccurrence(b, x) ==
    IF b.frequency = TxtMonthly
    THEN x.d = Min(b.due_day, DaysIn(x.y, x.m))
    ELSE x.m = b.due_month /\ x.d = Min(b.due_dom, DaysIn(x.y, x.m))

\* the occurrences of b among the 14 days from window_start on
OccurrencesIn(b, window_start) ==
    {x \in {DatePlus(window_start, k) : k \in 0..13} : IsOccurrence(b, x)}

\* C28: upcoming_bills misses no occurrence: for every 14-day window
\* [ws, ws+13] and every active monthly bill with due day in 1..31 or active
\* yearly bill, a date of the window that is an occurrence of the bill is the
\* next_due of the bill's entry in upcoming_bills(ws, ws+13), and no window
\* holds two occurrences of the same bill.
C28_NoOccurrenceMissed ==
    last.op = "upcoming_bills" =>
        \A id \in DOMAIN bills :
            LET occ == OccurrencesIn(bills[id], last.window_start)
            IN  /\ Cardinality(occ) <= 1
                /\ \A x \in occ :
                      \E k \in DOMAIN last.result :
                          last.result[k].id = id /\ last.result[k].next_due = x

\* C28 witness: day 31 asked over the window that starts on 29 February 2024,
\* the occurrence being the window's first day
C28_Witness ==
    /\ last.op = "upcoming_bills"
    /\ bills[1].frequency = TxtMonthly /\ bills[1].due_day = 31
    /\ last.window_start = [y |-> 2024, m |-> 2, d |-> 29]
    /\ Len(last.result) = 1
    /\ last.result[1].next_due = [y |-> 2024, m |-> 2, d |-> 29]

(***************************************************************************)
(* Claim on the pending flag (SpecBalance)                                 *)
(***************************************************************************)
\* C30: set_txn_pending(t, p) changes only t's pending flag: the available
\* balance of every account is unchanged, the posted balance of t's account
\* changes by exactly t's amount (added when t goes from pending to posted,
\* subtracted when it goes from posted to pending, unchanged when the flag
\* already had the value p), the posted balance of every other account is
\* unchanged, and no order key, amount or record of another transaction
\* changes.
C30_SetPendingFrame ==
    [][ last'.op = "set_txn_pending" =>
          LET t     == args'.txn_id
              flag  == IF args'.pending THEN 1 ELSE 0
              delta == IF transactions[t].pending = flag THEN 0
                       ELSE IF flag = 0 THEN transactions[t].amount
                       ELSE 0 - transactions[t].amount
          IN  /\ transactions' = [transactions EXCEPT ![t].pending = flag]
              /\ accounts' = accounts
              /\ \A a \in DOMAIN accounts :
                    LET before == account_header(accounts, transactions, a)
                        after  == account_header(accounts', transactions', a)
                    IN  /\ after.available = before.available
                        /\ after.posted = before.posted
                              + (IF a = transactions[t].acc_id THEN delta ELSE 0)
      ]_vars

\* C30 witness: a pending transaction was posted in an account that holds a
\* second, still pending transaction
C30_Witness ==
    /\ last.op = "set_txn_pending"
    /\ ~args.pending /\ args.was = 1
    /\ Len(transactions) = 2
    /\ transactions[1].acc_id = transactions[2].acc_id
    /\ transactions[args.txn_id].pending = 0
    /\ \E i \in DOMAIN transactions : transactions[i].pending = 1
    /\ account_header(accounts, transactions, transactions[1].acc_id).posted
          # account_header(accounts, transactions, transactions[1].acc_id).available

====
